---- MODULE Spec2Model ----
(***************************************************************************)
(* Candle-pattern detectors of agentic-fo-backend.                         *)
(*                                                                         *)
(*   app/services/breakdown_detector.py          BreakdownDetector         *)
(*   app/services/breakout_failure_detector.py   BreakoutFailureDetector   *)
(*   app/routes/breakdown_monitor.py             start / stop / worker     *)
(*   app/routes/breakout_failure_monitor.py      start / stop / worker     *)
(*                                                                         *)
(* Prices are integers in tenths of a currency unit (101.8 is 1018), and   *)
(* tolerances are in tenths of a percent (0.5 % is 5), so every comparison *)
(* the code makes on floats is made here exactly on integers.  Quotients   *)
(* the code stores (ratios, percentages) are kept as fractions num/den.    *)
(* A Python dict is a function whose DOMAIN is the set of keys present;    *)
(* an Optional value is a sequence of length 0 (None) or 1.                *)
(***************************************************************************)
EXTENDS Integers, Sequences, FiniteSets, TLC

VARIABLES
    \* BreakoutFailureDetector (breakout_failure_detector.py:73-81)
    range_levels, swing_lows, swing_highs, breakout_prices, breakout_direction,
    bf_price_history, failure_history, current_phase,
    \* BreakdownDetector (breakdown_detector.py:49-53)
    support_levels, bd_price_history, breakdown_history,
    \* MomentumEntryDetector (momentum_entry_detector.py:30-33)
    breakdown_levels, momentum_levels,
    \* background tasks of the two monitors: per instrument, the notify flag
    \* of every monitor_instrument task that was started
    bf_workers, bd_workers,
    \* observation: every candle handed to each detector, the last call made
    \* and what it returned, and whether the last stop of the breakout-failure
    \* monitor succeeded with no start since
    bf_log, bd_log, last_call, bf_stopped,
    \* observation: the last direct call of the momentum detector with its
    \* arguments and outcome
    mo_call,
    \* a second run of the two detectors from empty state, fed the candles and
    \* registrations of the first, and the events each run has emitted
    replay

bf_vars == <<range_levels, swing_lows, swing_highs, breakout_prices,
             breakout_direction, bf_price_history, failure_history,
             current_phase, bf_workers, bf_log, bf_stopped>>
bd_vars == <<support_levels, bd_price_history, breakdown_history, bd_workers,
             bd_log>>
mo_vars == <<breakdown_levels, momentum_levels, mo_call>>
vars == <<bf_vars, bd_vars, last_call, mo_vars, replay>>

---------------------------------------------------------------------------
\* Instruments and program constants

InstCE == "NIFTY 26200 CE"
InstPE == "NIFTY 26200 PE"
Instruments == {InstCE, InstPE}
\* the instruments the monitors are started for
Monitored == {InstCE}

BD_HISTORY_CAP == 100
BF_HISTORY_CAP == 200
LOOKBACK_PERIODS == 50
MIN_RANGE_CANDLES == 20
SWING_LOOKBACK == 30
SWING_AFTER == 30
SWING_MIN_CANDLES == 10
SWING_EVERY == 10

\* the readings of the wall clock (datetime.now()), in minutes
WallClock == {9000}

CONSOLIDATION == "consolidation"
BREAKOUT_UP == "breakout_up"
BREAKOUT_DOWN == "breakout_down"
BREAKOUT_FAILURE_UP == "breakout_failure_up"
BREAKOUT_FAILURE_DOWN == "breakout_failure_down"
SWING_LOW_BROKEN == "swing_low_broken"
SWING_HIGH_BROKEN == "swing_high_broken"

---------------------------------------------------------------------------
\* Python values

EmptyDict == [k \in {} |-> k]
Has(d, k) == k \in DOMAIN d
Put(d, k, v) == [x \in (DOMAIN d) \cup {k} |-> IF x = k THEN v ELSE d[x]]
Pop(d, k) == [x \in (DOMAIN d) \ {k} |-> d[x]]

None == <<>>
Some(v) == <<v>>

\* what a dict holds for a key, as an Optional
Lookup(d, k) == IF Has(d, k) THEN Some(d[k]) ELSE None

\* candle.get(field, default)
Get(c, f, d) == IF f \in DOMAIN c THEN c[f] ELSE d

\* s[-n:] for n >= 0 (s[-0:] is the whole list)
LastN(s, n) ==
    IF n = 0 \/ Len(s) <= n THEN s ELSE SubSeq(s, Len(s) - n + 1, Len(s))

\* s[:-1]
AllButLast(s) == IF Len(s) = 0 THEN s ELSE SubSeq(s, 1, Len(s) - 1)

\* sum(c.get(f, 0) for c in s[lo..hi]), halving the span
RECURSIVE SumRange(_, _, _, _)
SumRange(s, f, lo, hi) ==
    IF lo > hi THEN 0
    ELSE IF lo = hi THEN Get(s[lo], f, 0)
    ELSE LET mid == (lo + hi) \div 2
         IN SumRange(s, f, lo, mid) + SumRange(s, f, mid + 1, hi)
SumOf(s, f) == SumRange(s, f, 1, Len(s))

MaxOf(S) == CHOOSE x \in S : \A y \in S : y <= x
MinOf(S) == CHOOSE x \in S : \A y \in S : x <= y
Abs(x) == IF x < 0 THEN -x ELSE x

Frac(n, d) == [num |-> n, den |-> d]
Zero == Frac(0, 1)

---------------------------------------------------------------------------
\* BreakoutFailureDetector

\* A quotient the code computes is the fraction num/den; a fraction with
\* den = 0 stands for the ZeroDivisionError of a division by zero.
range_percentage_unguarded(range_upper, range_lower) ==
    Frac(200 * (range_upper - range_lower), range_upper + range_lower)

\* range_percentage (lines 109-113): (range_width / avg_price) * 100 with
\* avg_price = (range_upper + range_lower) / 2, and 0 when avg_price is not
\* positive
range_percentage(range_upper, range_lower) ==
    IF range_upper + range_lower > 0
    THEN Frac(200 * (range_upper - range_lower), range_upper + range_lower)
    ELSE Zero

RangeIsTightBelowThree(range_upper, range_lower) ==
    LET p == range_percentage(range_upper, range_lower)
    IN p.den > 0 /\ p.num < 3 * p.den

\* range_percentage < 2.0 (line 116)
RangeIsTight(range_upper, range_lower) ==
    LET p == range_percentage(range_upper, range_lower)
    IN p.den > 0 /\ p.num < 2 * p.den

\* the touch count (line 119) reads high and low with no default: comparing
\* the None of a missing field with a number raises TypeError.  The low is
\* read only when the high does not already count as a touch.
touch_count_faults(recent, range_upper, range_lower) ==
    \E i \in 1..Len(recent) :
       \/ "high" \notin DOMAIN recent[i]
       \/ /\ 100 * recent[i].high < 99 * range_upper
          /\ "low" \notin DOMAIN recent[i]

\* whether detect_range (lines 83-133) raises on this history
detect_range_faults(price_data, lookback_periods, min_range_candles) ==
    /\ Len(price_data) >= lookback_periods
    /\ LET recent == LastN(price_data, lookback_periods)
           range_upper == MaxOf({Get(recent[i], "high", 0) : i \in 1..Len(recent)})
           range_lower == MinOf({Get(recent[i], "low", 0) : i \in 1..Len(recent)})
       IN /\ RangeIsTight(range_upper, range_lower)
          /\ Len(recent) >= min_range_candles
          /\ touch_count_faults(recent, range_upper, range_lower)

\* detect_range (lines 83-133) where it does not raise; now is the reading
\* of the wall clock that stands in for a missing timestamp
detect_range(price_data, lookback_periods, min_range_candles, now) ==
    IF Len(price_data) < lookback_periods THEN None
    ELSE
      LET recent == LastN(price_data, lookback_periods)
          highs == {Get(recent[i], "high", 0) : i \in 1..Len(recent)}
          lows == {Get(recent[i], "low", 0) : i \in 1..Len(recent)}
          range_upper == MaxOf(highs)
          range_lower == MinOf(lows)
      IN IF RangeIsTight(range_upper, range_lower)
            /\ Len(recent) >= min_range_candles
         THEN Some([upper_bound |-> range_upper,
                    lower_bound |-> range_lower,
                    start_time |-> Get(recent[1], "timestamp", now),
                    end_time |-> None,
                    touch_count |->
                      Cardinality({i \in 1..Len(recent) :
                         \/ 100 * Get(recent[i], "high", 0) >= 99 * range_upper
                         \/ 100 * Get(recent[i], "low", 0) <= 101 * range_lower})])
         ELSE None

\* index of the first candle of recent with the lowest low / highest high
\* (min and max with a key return the first extremal element)
FirstLowest(recent) ==
    MinOf({i \in 1..Len(recent) :
             \A j \in 1..Len(recent) :
                Get(recent[i], "low", 0) <= Get(recent[j], "low", 0)})
FirstHighest(recent) ==
    MinOf({i \in 1..Len(recent) :
             \A j \in 1..Len(recent) :
                Get(recent[i], "high", 0) >= Get(recent[j], "high", 0)})

update_swing_low(lows_, inst, price_data, now) ==
    IF Len(price_data) < SWING_MIN_CANDLES THEN lows_
    ELSE LET recent == LastN(price_data, SWING_LOOKBACK)
             c == recent[FirstLowest(recent)]
         IN Put(lows_, inst, [price |-> Get(c, "low", 0),
                              time |-> Get(c, "timestamp", now),
                              is_broken |-> FALSE])

update_swing_high(highs_, inst, price_data, now) ==
    IF Len(price_data) < SWING_MIN_CANDLES THEN highs_
    ELSE LET recent == LastN(price_data, SWING_LOOKBACK)
             c == recent[FirstHighest(recent)]
         IN Put(highs_, inst, [price |-> Get(c, "high", 0),
                               time |-> Get(c, "timestamp", now),
                               is_broken |-> FALSE])

bf_append_trims_late(history, candle) ==
    LET h == Append(history, candle)
    IN IF Len(h) > BF_HISTORY_CAP + 1 THEN LastN(h, BF_HISTORY_CAP) ELSE h

\* the history after append and trim (process_candle, lines 340-348)
bf_append(history, candle) ==
    LET h == Append(history, candle)
    IN IF Len(h) > BF_HISTORY_CAP THEN LastN(h, BF_HISTORY_CAP) ELSE h

\* the guard of the periodic swing update (process_candle, line 351)
swing_update_due(history) ==
    Len(history) > SWING_AFTER /\ Len(history) % SWING_EVERY = 0

detect_breakout_on_close(current_candle, range_level) ==
    IF Get(current_candle, "close", 0) > range_level.upper_bound THEN "up"
    ELSE IF Get(current_candle, "close", 0) < range_level.lower_bound
    THEN "down"
    ELSE "none"

\* "up", "down" or "none": which breakout detect_breakout finds
detect_breakout(current_candle, range_level) ==
    IF Get(current_candle, "high", 0) > range_level.upper_bound THEN "up"
    ELSE IF Get(current_candle, "low", 0) < range_level.lower_bound THEN "down"
    ELSE "none"

\* is_failure of detect_breakdown_after_breakout (lines 204-209)
is_failure(direction, close_price, range_level) ==
    \/ direction = "up" /\ close_price < range_level.upper_bound
    \/ direction = "down" /\ close_price > range_level.lower_bound

\* volume_spike of detect_breakdown_after_breakout (lines 220-225)
volume_spike(recent_candles, volume) ==
    IF Len(recent_candles) > 1
    THEN LET total == SumOf(AllButLast(recent_candles), "volume")
             n == Len(recent_candles) - 1
         IN IF total > 0 THEN Frac((volume * n - total) * 100, total) ELSE Zero
    ELSE Zero

\* detect_breakdown_after_breakout (lines 176-286) on the detector state d
\* (a record of the detector's dicts): the state it leaves and the alert it
\* returns.  The end_time it writes to the range is dropped with the range
\* by the caller.
detect_breakdown_after_breakout(d, inst, current_candle, range_level, now) ==
    IF ~Has(d.breakout_prices, inst) THEN [state |-> d, alert |-> None]
    ELSE
      LET close_price == Get(current_candle, "close", 0)
          volume == Get(current_candle, "volume", 0)
          direction == IF Has(d.breakout_direction, inst)
                       THEN d.breakout_direction[inst] ELSE "up"
      IN IF ~is_failure(direction, close_price, range_level)
         THEN [state |-> d, alert |-> None]
         ELSE
           LET history == IF Has(d.price_history, inst)
                          THEN d.price_history[inst] ELSE <<>>
               swing_low_broken ==
                   /\ direction = "up"
                   /\ Has(d.swing_lows, inst)
                   /\ close_price < d.swing_lows[inst].price
               swing_high_broken ==
                   /\ direction = "down"
                   /\ Has(d.swing_highs, inst)
                   /\ close_price > d.swing_highs[inst].price
               alert ==
                   [instrument |-> inst,
                    range_upper |-> range_level.upper_bound,
                    range_lower |-> range_level.lower_bound,
                    breakout_price |-> d.breakout_prices[inst],
                    breakdown_price |-> close_price,
                    previous_swing_low |->
                        IF swing_low_broken THEN d.swing_lows[inst].price ELSE 0,
                    previous_swing_high |->
                        IF swing_high_broken THEN d.swing_highs[inst].price ELSE 0,
                    swing_low_broken |-> swing_low_broken,
                    swing_high_broken |-> swing_high_broken,
                    breakdown_time |-> Get(current_candle, "timestamp", now),
                    candles_for_failure |-> Len(history),
                    volume_spike |-> volume_spike(history, volume),
                    direction |-> IF direction = "up" THEN "up_failure"
                                  ELSE "down_failure"]
           IN [state |->
                 [d EXCEPT
                    !.range_levels =
                        Put(@, inst, [range_level EXCEPT
                                !.end_time =
                                    Some(Get(current_candle, "timestamp", now))]),
                    !.swing_lows =
                        IF swing_low_broken
                        THEN [@ EXCEPT ![inst].is_broken = TRUE] ELSE @,
                    !.swing_highs =
                        IF swing_high_broken
                        THEN [@ EXCEPT ![inst].is_broken = TRUE] ELSE @,
                    !.failure_history =
                        Put(@, inst, Append(IF Has(@, inst) THEN @[inst]
                                            ELSE <<>>, alert)),
                    !.current_phase =
                        Put(@, inst,
                            IF direction = "up"
                            THEN (IF swing_low_broken THEN SWING_LOW_BROKEN
                                  ELSE BREAKOUT_FAILURE_UP)
                            ELSE (IF swing_high_broken THEN SWING_HIGH_BROKEN
                                  ELSE BREAKOUT_FAILURE_DOWN))],
               alert |-> Some(alert)]

reset_unless_swing_broken(d, inst) ==
    [d EXCEPT !.range_levels = Pop(@, inst),
              !.breakout_prices = Pop(@, inst),
              !.current_phase =
                  IF Has(@, inst)
                     /\ @[inst] \in {SWING_LOW_BROKEN, SWING_HIGH_BROKEN}
                  THEN @ ELSE Put(@, inst, CONSOLIDATION)]

reset_keeps_phase(d, inst) ==
    [d EXCEPT !.range_levels = Pop(@, inst),
              !.breakout_prices = Pop(@, inst)]

reset_keeps_breakout_price(d, inst) ==
    [d EXCEPT !.range_levels = Pop(@, inst),
              !.current_phase = Put(@, inst, CONSOLIDATION)]

\* the reset after an alert (process_candle, lines 376-382)
reset_after_alert(d, inst) ==
    [d EXCEPT !.range_levels = Pop(@, inst),
              !.breakout_prices = Pop(@, inst),
              !.current_phase = Put(@, inst, CONSOLIDATION)]

\* the breakout branch of detect_breakout (lines 153-172) on the state
record_breakout(d, inst, current_candle, dir, now) ==
    [d EXCEPT
       !.range_levels =
           [@ EXCEPT ![inst].end_time =
                        Some(Get(current_candle, "timestamp", now))],
       !.breakout_prices = Put(@, inst, Get(current_candle, "close", 0)),
       !.breakout_direction = Put(@, inst, dir),
       !.current_phase =
           Put(@, inst, IF dir = "up" THEN BREAKOUT_UP ELSE BREAKOUT_DOWN)]

\* process_candle (lines 326-384): the state it leaves, what it returns, and
\* whether it raised instead of returning (the history and the swing points
\* are written before the range detection that can raise)
process_candle(d, inst, current_candle, now) ==
    LET history == bf_append(IF Has(d.price_history, inst)
                             THEN d.price_history[inst] ELSE <<>>,
                             current_candle)
        due == swing_update_due(history)
        d1 == [d EXCEPT
                 !.price_history = Put(@, inst, history),
                 !.swing_lows =
                     IF due THEN update_swing_low(@, inst, history, now) ELSE @,
                 !.swing_highs =
                     IF due THEN update_swing_high(@, inst, history, now) ELSE @]
        phase == IF Has(d1.current_phase, inst)
                 THEN d1.current_phase[inst] ELSE CONSOLIDATION
        \* Phase 1: detect consolidation range
        raises == /\ phase = CONSOLIDATION
                  /\ detect_range_faults(history, LOOKBACK_PERIODS,
                                         MIN_RANGE_CANDLES)
        found == IF phase = CONSOLIDATION
                 THEN detect_range(history, LOOKBACK_PERIODS,
                                   MIN_RANGE_CANDLES, now)
                 ELSE None
        d2 == IF found # None
                 /\ (~Has(d1.range_levels, inst)
                     \/ found[1] # d1.range_levels[inst])
              THEN [d1 EXCEPT !.range_levels = Put(@, inst, found[1])]
              ELSE d1
        \* Phase 2: detect breakout
        dir == IF Has(d2.range_levels, inst)
               THEN detect_breakout(current_candle, d2.range_levels[inst])
               ELSE "none"
    IN IF raises
       THEN [state |-> d1, alert |-> None, raised |-> TRUE]
       ELSE IF dir # "none"
       THEN [state |-> record_breakout(d2, inst, current_candle, dir, now),
             alert |-> None, raised |-> FALSE]
       \* Phase 3: detect breakdown after breakout
       ELSE IF phase \in {BREAKOUT_UP, BREAKOUT_DOWN}
               /\ Has(d2.range_levels, inst)
       THEN LET r == detect_breakdown_after_breakout(
                         d2, inst, current_candle, d2.range_levels[inst], now)
            IN IF r.alert # None
               THEN [state |-> reset_after_alert(r.state, inst),
                     alert |-> r.alert, raised |-> FALSE]
               ELSE [state |-> r.state, alert |-> None, raised |-> FALSE]
       ELSE [state |-> d2, alert |-> None, raised |-> FALSE]

\* the detector object as a record of its dicts
Detector ==
    [range_levels |-> range_levels, swing_lows |-> swing_lows,
     swing_highs |-> swing_highs, breakout_prices |-> breakout_prices,
     breakout_direction |-> breakout_direction,
     price_history |-> bf_price_history,
     failure_history |-> failure_history, current_phase |-> current_phase]

SetDetector(d) ==
    /\ range_levels' = d.range_levels
    /\ swing_lows' = d.swing_lows
    /\ swing_highs' = d.swing_highs
    /\ breakout_prices' = d.breakout_prices
    /\ breakout_direction' = d.breakout_direction
    /\ bf_price_history' = d.price_history
    /\ failure_history' = d.failure_history
    /\ current_phase' = d.current_phase

PhaseOf(phases, inst) == IF Has(phases, inst) THEN phases[inst] ELSE CONSOLIDATION

---------------------------------------------------------------------------
\* MomentumEntryDetector (services/momentum_entry_detector.py)
\*
\* An instrument name is the sequence of its characters here, so that the
\* substring tests, replace and split of the code are computed on it.

Space == " "
SpaceCE == <<" ", "C", "E">>
SpacePE == <<" ", "P", "E">>
DigitValue ==
    [c \in {"0", "1", "2", "3", "4", "5", "6", "7", "8", "9"} |->
        CASE c = "0" -> 0 [] c = "1" -> 1 [] c = "2" -> 2 [] c = "3" -> 3
          [] c = "4" -> 4 [] c = "5" -> 5 [] c = "6" -> 6 [] c = "7" -> 7
          [] c = "8" -> 8 [] c = "9" -> 9]

\* sub occurs in s at position i
OccursAt(s, sub, i) ==
    /\ i + Len(sub) - 1 <= Len(s)
    /\ \A j \in 1..Len(sub) : s[i + j - 1] = sub[j]
\* sub in s
Contains(s, sub) == \E i \in 1..Len(s) : OccursAt(s, sub, i)

\* s.replace(old, new): every occurrence, left to right, not overlapping
RECURSIVE ReplaceFrom(_, _, _, _)
ReplaceFrom(s, old, new, i) ==
    IF i > Len(s) THEN <<>>
    ELSE IF OccursAt(s, old, i)
    THEN new \o ReplaceFrom(s, old, new, i + Len(old))
    ELSE <<s[i]>> \o ReplaceFrom(s, old, new, i + 1)
Replace(s, old, new) == ReplaceFrom(s, old, new, 1)

\* s.split(): the maximal runs of characters other than whitespace
RECURSIVE SplitFrom(_, _, _)
SplitFrom(s, i, token) ==
    IF i > Len(s) THEN (IF Len(token) > 0 THEN <<token>> ELSE <<>>)
    ELSE IF s[i] = Space
    THEN (IF Len(token) > 0 THEN <<token>> ELSE <<>>) \o SplitFrom(s, i + 1, <<>>)
    ELSE SplitFrom(s, i + 1, Append(token, s[i]))
Split(s) == SplitFrom(s, 1, <<>>)

\* int(token): the value of a run of decimal digits; anything else raises
\* ValueError (the names here hold letters, digits and spaces only)
IsInt(token) ==
    Len(token) > 0 /\ \A i \in 1..Len(token) : token[i] \in DOMAIN DigitValue
RECURSIVE IntOf(_)
IntOf(token) ==
    IF Len(token) = 0 THEN 0
    ELSE 10 * IntOf(AllButLast(token)) + DigitValue[token[Len(token)]]

get_opposite_instrument(instrument) ==
    IF Contains(instrument, SpaceCE) THEN Replace(instrument, SpaceCE, SpacePE)
    ELSE IF Contains(instrument, SpacePE)
    THEN Replace(instrument, SpacePE, SpaceCE)
    ELSE instrument

\* the strike of lines 97-103: the token before the last read as an integer,
\* 0 when the name has neither leg or the read raises
strike_of(breakdown_instrument) ==
    LET tokens == Split(breakdown_instrument)
    IN IF Contains(breakdown_instrument, SpaceCE)
          \/ Contains(breakdown_instrument, SpacePE)
       THEN (IF Len(tokens) >= 2 /\ IsInt(tokens[Len(tokens) - 1])
             THEN IntOf(tokens[Len(tokens) - 1]) ELSE 0)
       ELSE 0

\* mark_breakdown_level (lines 35-55): the breakdown levels it leaves
mark_breakdown_level(levels, instrument, red_candles) ==
    IF Len(red_candles) < 2 THEN levels
    ELSE Put(levels, instrument,
             Frac(SumOf(red_candles, "low"), Len(red_candles)))

\* lines 116-119: the candle is at or after the breakdown and at most
\* lookback_minutes after it; times are in minutes
in_lookback_window(candle_time, breakdown_time, lookback_minutes) ==
    /\ candle_time >= breakdown_time
    /\ candle_time - breakdown_time <= lookback_minutes

is_green_counts_red(candle) ==
    Get(candle, "close", 0) # Get(candle, "open", 0)

\* close > open (lines 135-140)
is_green(candle) == Get(candle, "close", 0) > Get(candle, "open", 0)

MIN_MOMENTUM_CANDLES == 2
DEFAULT_LOOKBACK_MINUTES == 5

\* detect_momentum_in_opposite_side (lines 74-168): outcome "none" (returns
\* None), "level" (returns the MomentumLevel) or "raise" (the split()[-1] of
\* line 128 on a name with no token)
detect_momentum_in_opposite_side(levels, breakdown_instrument, opposite_price_history, breakdown_time, lookback_minutes, now) ==
    LET opposite_instrument == get_opposite_instrument(breakdown_instrument)
        strike == strike_of(breakdown_instrument)
        momentum_candles ==
            SelectSeq(opposite_price_history,
                      LAMBDA c : in_lookback_window(Get(c, "timestamp", now),
                                     breakdown_time, lookback_minutes))
        momentum_candles_to_use ==
            SelectSeq(momentum_candles, is_green)
        no_level == [outcome |-> "none", level |-> None]
    IN IF Len(opposite_price_history) < 2 THEN no_level
       ELSE IF Len(momentum_candles) < MIN_MOMENTUM_CANDLES THEN no_level
       ELSE IF Len(Split(breakdown_instrument)) = 0
       THEN [outcome |-> "raise", level |-> None]
       ELSE IF Len(momentum_candles_to_use) < MIN_MOMENTUM_CANDLES THEN no_level
       ELSE [outcome |-> "level",
             level |-> Some(
               [asset |-> LET t == Split(opposite_instrument) IN t[Len(t)],
                strike |-> strike,
                breakdown_level |-> IF Has(levels, breakdown_instrument)
                                    THEN levels[breakdown_instrument] ELSE Zero,
                momentum_candles |-> momentum_candles_to_use,
                entry_point |-> Frac(SumOf(momentum_candles_to_use, "low"),
                                     Len(momentum_candles_to_use)),
                entry_time |-> Get(momentum_candles[Len(momentum_candles)],
                                   "timestamp", now),
                red_candles_count |-> Len(momentum_candles_to_use)])]

\* the momentum detector as a record of its dicts
Momentum(levels, momentum) ==
    [breakdown_levels |-> levels, momentum_levels |-> momentum]

\* red_candles[0] of line 193 raises IndexError on an empty list
first_red_candle_faults(red_candles) == Len(red_candles) = 0

\* calculate_entry_point (lines 170-220): the detector state it leaves and
\* outcome "none" (returns None), "entry" (returns the entry dict) or "raise"
calculate_entry_point(mo, breakdown_instrument, opposite_price_history, breakdown_time, red_candles, now) ==
    IF first_red_candle_faults(red_candles)
    THEN [state |-> mo, outcome |-> "raise", entry |-> None]
    ELSE
      LET levels == mark_breakdown_level(mo.breakdown_levels,
                                         breakdown_instrument, red_candles)
          mo1 == [mo EXCEPT !.breakdown_levels = levels]
          m == detect_momentum_in_opposite_side(
                   levels, breakdown_instrument, opposite_price_history,
                   breakdown_time, DEFAULT_LOOKBACK_MINUTES, now)
          opposite_instrument == get_opposite_instrument(breakdown_instrument)
      IN IF m.outcome = "level"
         THEN [state |-> [mo1 EXCEPT !.momentum_levels =
                                Put(@, opposite_instrument, m.level[1])],
               outcome |-> "entry",
               entry |-> Some(
                 [breakdown_instrument |-> breakdown_instrument,
                  breakdown_level |-> m.level[1].breakdown_level,
                  breakdown_asset |-> LET t == Split(breakdown_instrument)
                                      IN t[Len(t)],
                  opposite_instrument |-> opposite_instrument,
                  momentum_asset |-> m.level[1].asset,
                  strike |-> m.level[1].strike,
                  entry_point |-> m.level[1].entry_point,
                  entry_time |-> m.level[1].entry_time,
                  momentum_candles_count |-> m.level[1].red_candles_count,
                  signal |-> m.level[1].asset])]
         ELSE [state |-> mo1, outcome |-> m.outcome, entry |-> None]

---------------------------------------------------------------------------
\* Breakout-failure monitor (routes/breakout_failure_monitor.py)

\* POST /start (lines 56-67): schedules one more monitor_instrument task
BFStart(inst, notify) ==
    /\ bf_workers' = [bf_workers EXCEPT ![inst] = Append(@, notify)]
    /\ bf_stopped' = [bf_stopped EXCEPT ![inst] = FALSE]
    /\ last_call' = [op |-> "bf_start", instrument |-> inst,
                     notify |-> notify,
                     after_not_found |->
                         /\ last_call.op = "bf_stop"
                         /\ last_call.instrument = inst
                         /\ last_call.status = 404]
    /\ UNCHANGED <<range_levels, swing_lows, swing_highs, breakout_prices,
                   breakout_direction, bf_price_history, failure_history,
                   current_phase, bf_log>>
    /\ UNCHANGED <<bd_vars, mo_vars, replay>>

bf_stop_keeps_breakout_price(d, inst) ==
    IF Has(d.current_phase, inst)
    THEN [state |-> [d EXCEPT !.current_phase = Pop(@, inst),
                              !.range_levels = Pop(@, inst)],
          status |-> 200]
    ELSE [state |-> d, status |-> 404]

bf_stop_always_succeeds(d, inst) ==
    [state |-> [d EXCEPT !.current_phase = Pop(@, inst),
                         !.range_levels = Pop(@, inst),
                         !.breakout_prices = Pop(@, inst)],
     status |-> 200]

\* POST /stop (lines 70-81): success when the instrument has a phase, else 404
bf_stop_monitoring(d, inst) ==
    IF Has(d.current_phase, inst)
    THEN [state |-> [d EXCEPT !.current_phase = Pop(@, inst),
                              !.range_levels = Pop(@, inst),
                              !.breakout_prices = Pop(@, inst)],
          status |-> 200]
    ELSE [state |-> d, status |-> 404]

BFStop(inst) ==
    LET r == bf_stop_monitoring(Detector, inst)
    IN /\ SetDetector(r.state)
       /\ bf_stopped' = [bf_stopped EXCEPT
                           ![inst] = IF r.status = 200 THEN TRUE ELSE @]
       /\ last_call' = [op |-> "bf_stop", instrument |-> inst,
                        status |-> r.status]
       /\ UNCHANGED <<bf_workers, bf_log>>
       /\ UNCHANGED <<bd_vars, mo_vars, replay>>

\* the instrument names of the monitors as the momentum detector reads them
InstrumentName ==
    [i \in {"NIFTY 26200 CE", "NIFTY 26200 PE"} |->
        <<"N", "I", "F", "T", "Y", " ", "2", "6", "2", "0", "0", " ">>
        \o (IF i = "NIFTY 26200 CE" THEN <<"C", "E">> ELSE <<"P", "E">>)]

\* the candles of the failing side among the last five fetched (lines 163-175)
failure_candles_of(ohlc_data, direction) ==
    SelectSeq(LastN(ohlc_data, 5),
              LAMBDA c :
                 \/ /\ direction = "up_failure"
                    /\ Get(c, "close", 0) < Get(c, "open", 0)
                 \/ /\ direction = "down_failure"
                    /\ Get(c, "close", 0) > Get(c, "open", 0))

\* lines 155-192 of monitor_instrument: the momentum detector after a failure
\* alert was notified; ohlc_data is the fetched list, opposite_ohlc what the
\* fetch for the opposite instrument returned.  An exception of the
\* calculation is caught and logged.
momentum_after_failure(mo, inst, ohlc_data, failure_alert, opposite_ohlc, now) ==
    LET failure_candles == failure_candles_of(ohlc_data, failure_alert.direction)
    IN IF Len(failure_candles) >= 2 /\ Len(opposite_ohlc) > 0
       THEN calculate_entry_point(mo, InstrumentName[inst], opposite_ohlc,
                                  failure_alert.breakdown_time,
                                  failure_candles, now).state
       ELSE mo

\* what the fetch for the opposite instrument may return at minute t: nothing,
\* or candles up to the current minute
OppositePolls(t) ==
    {<<>>,
     <<[timestamp |-> t - 1, open |-> 505, high |-> 520, low |-> 500,
        close |-> 515, volume |-> 100],
       [timestamp |-> t, open |-> 515, high |-> 530, low |-> 510,
        close |-> 525, volume |-> 100]>>}

\* one iteration of a monitor_instrument task (lines 143-199) that fetched
\* `candle` as the latest candle of a list whose earlier candles are those
\* fetched before.  The iteration runs without suspension up to its sleep
\* (the fetches of the data source return without waiting); an exception of
\* process_candle is caught by the loop, which sleeps and polls again.
BFMonitorStep(inst, candle) ==
    /\ Len(bf_workers[inst]) > 0
    /\ \E w \in 1..Len(bf_workers[inst]), now \in WallClock :
         \E r \in {process_candle(Detector, inst, candle, now)} :
            /\ SetDetector(r.state)
            /\ last_call' = [op |-> "process_candle", instrument |-> inst,
                             candle |-> candle,
                             phase_before |-> PhaseOf(current_phase, inst),
                             range_before |-> IF Has(range_levels, inst)
                                              THEN Some(range_levels[inst])
                                              ELSE None,
                             alert |-> r.alert,
                             raised |-> r.raised]
            /\ IF r.alert # None /\ bf_workers[inst][w]
               THEN \E opposite_ohlc \in OppositePolls(Get(candle, "timestamp", now)) :
                      \E mo \in {momentum_after_failure(
                                    Momentum(breakdown_levels, momentum_levels),
                                    inst, Append(bf_log[inst], candle),
                                    r.alert[1], opposite_ohlc, now)} :
                         /\ breakdown_levels' = mo.breakdown_levels
                         /\ momentum_levels' = mo.momentum_levels
               ELSE UNCHANGED <<breakdown_levels, momentum_levels>>
    /\ bf_log' = [bf_log EXCEPT ![inst] = Append(@, candle)]
    /\ UNCHANGED <<bf_workers, bf_stopped, mo_call, replay>>
    /\ UNCHANGED bd_vars

---------------------------------------------------------------------------
\* BreakdownDetector

\* close < support.price * (1 - support.tolerance / 100)
below_support(close, support) ==
    1000 * close < support.price * (1000 - support.tolerance)

\* int(consolidation_periods * 0.6): the product truncated
breakdown_threshold(consolidation_periods) == (consolidation_periods * 6) \div 10

decisive_only_on_crossing(recent_candles, support) ==
    /\ Len(recent_candles) >= support.consolidation_periods
    /\ Cardinality({i \in 1..Len(recent_candles) :
           below_support(Get(recent_candles[i], "close", 0), support)})
          >= breakdown_threshold(support.consolidation_periods)
    /\ (Len(recent_candles) >= 2 =>
          ~below_support(
              Get(recent_candles[Len(recent_candles) - 1], "close", 0), support))

decisive_on_first_close_below(recent_candles, support) ==
    Len(recent_candles) >= support.consolidation_periods

\* _is_decisive_breakdown (lines 135-151)
_is_decisive_breakdown(recent_candles, support) ==
    IF Len(recent_candles) < support.consolidation_periods THEN FALSE
    ELSE LET candles_below ==
                 Cardinality({i \in 1..Len(recent_candles) :
                     below_support(Get(recent_candles[i], "close", 0), support)})
         IN candles_below >= breakdown_threshold(support.consolidation_periods)

body_ratio_unguarded(candle_body, candle_range) ==
    Frac(candle_body, candle_range)

\* body_ratio (line 112): candle_body / candle_range, 0 unless the range is
\* positive
body_ratio(candle_body, candle_range) ==
    IF candle_range > 0 THEN Frac(candle_body, candle_range) ELSE Zero

\* volume_increase (lines 115-116) of a candle over the n candles before it
\* whose volumes add up to total: avg_volume = total / n, and the percentage
\* is 0 unless avg_volume is positive
volume_increase(total, n, volume) ==
    IF total > 0 THEN Frac((volume * n - total) * 100, total) ELSE Zero

\* _check_breakdown (lines 88-133): None or the BreakdownAlert
_check_breakdown(history, inst, support, current_candle, now) ==
    LET current_price == Get(current_candle, "close", 0)
        high == Get(current_candle, "high", 0)
        low == Get(current_candle, "low", 0)
        volume == Get(current_candle, "volume", 0)
        recent_candles == LastN(history, support.consolidation_periods)
    IN IF below_support(current_price, support)
          /\ _is_decisive_breakdown(recent_candles, support)
       THEN LET candle_body == Abs(current_price - Get(current_candle, "open", 0))
                candle_range == high - low
                total == SumOf(AllButLast(recent_candles), "volume")
                n == IF Len(recent_candles) - 1 > 1
                     THEN Len(recent_candles) - 1 ELSE 1
            IN Some([instrument |-> inst,
                     strike_price |-> support.price,
                     breakdown_price |-> current_price,
                     support_level |-> support.price,
                     breakdown_time |-> now,
                     volume |-> volume,
                     volume_increase |-> volume_increase(total, n, volume),
                     candle_body_ratio |-> body_ratio(candle_body, candle_range)])
       ELSE None

bd_append_drops_newest(history, price_data) ==
    LET h == Append(history, price_data)
    IN IF Len(h) > BD_HISTORY_CAP THEN SubSeq(h, 1, BD_HISTORY_CAP) ELSE h

\* the history after append and trim (update_price, lines 68-76)
bd_append(history, price_data) ==
    LET h == Append(history, price_data)
    IN IF Len(h) > BD_HISTORY_CAP THEN LastN(h, BD_HISTORY_CAP) ELSE h

last_breakdown(history, inst, supports, price_data, now) ==
    LET hits == {i \in 1..Len(supports) :
                    /\ supports[i].is_active
                    /\ _check_breakdown(history, inst, supports[i],
                                        price_data, now) # None}
    IN IF hits = {} THEN None
       ELSE _check_breakdown(history, inst, supports[MaxOf(hits)],
                             price_data, now)

\* the scan of update_price (lines 79-86): the alert of the first active
\* support level, in registration order, that confirms a breakdown
RECURSIVE first_breakdown(_, _, _, _, _)
first_breakdown(history, inst, supports, price_data, now) ==
    IF Len(supports) = 0 THEN None
    ELSE LET b == IF supports[1].is_active
                  THEN _check_breakdown(history, inst, supports[1],
                                        price_data, now)
                  ELSE None
         IN IF b # None THEN b
            ELSE first_breakdown(history, inst, Tail(supports), price_data, now)

add_support_level(levels, inst, price, tolerance, consolidation_periods) ==
    Put(levels, inst,
        Append(IF Has(levels, inst) THEN levels[inst] ELSE <<>>,
               [price |-> price, tolerance |-> tolerance, min_touches |-> 2,
                consolidation_periods |-> consolidation_periods,
                is_active |-> TRUE]))

---------------------------------------------------------------------------
\* Breakdown monitor (routes/breakdown_monitor.py)

\* POST /start (lines 47-68)
BDStart(inst, price, tolerance, consolidation_periods, notify) ==
    /\ support_levels' = add_support_level(support_levels, inst, price,
                                           tolerance, consolidation_periods)
    /\ bd_workers' = [bd_workers EXCEPT ![inst] = Append(@, notify)]
    /\ last_call' = [op |-> "bd_start", instrument |-> inst,
                     price |-> price, tolerance |-> tolerance,
                     consolidation_periods |-> consolidation_periods,
                     notify |-> notify,
                     after_not_found |->
                         /\ last_call.op = "bd_stop"
                         /\ last_call.instrument = inst
                         /\ last_call.status = 404]
    /\ UNCHANGED <<bd_price_history, breakdown_history, bd_log>>
    /\ UNCHANGED <<bf_vars, mo_vars, replay>>

bd_stop_disables_every_instrument(levels, inst) ==
    IF Has(levels, inst)
    THEN [levels |-> [k \in DOMAIN levels |->
                        [i \in 1..Len(levels[k]) |->
                            [levels[k][i] EXCEPT !.is_active = FALSE]]],
          status |-> 200]
    ELSE [levels |-> levels, status |-> 404]

\* POST /stop (lines 71-80)
bd_stop_monitoring(levels, inst) ==
    IF Has(levels, inst)
    THEN [levels |-> [levels EXCEPT ![inst] =
                        [i \in 1..Len(@) |-> [@[i] EXCEPT !.is_active = FALSE]]],
          status |-> 200]
    ELSE [levels |-> levels, status |-> 404]

BDStop(inst) ==
    LET r == bd_stop_monitoring(support_levels, inst)
    IN /\ support_levels' = r.levels
       /\ last_call' = [op |-> "bd_stop", instrument |-> inst,
                        status |-> r.status]
       /\ UNCHANGED <<bd_price_history, breakdown_history, bd_workers, bd_log>>
       /\ UNCHANGED <<bf_vars, mo_vars, replay>>

\* disable_support_level (breakdown_detector.py:161-169): the first level of
\* the instrument within 0.1 of the price is made inactive
disable_support_level(levels, inst, price) ==
    LET matching == IF Has(levels, inst)
                    THEN {i \in 1..Len(levels[inst]) :
                             Abs(levels[inst][i].price - price) < 1}
                    ELSE {}
    IN IF matching = {} THEN [levels |-> levels, result |-> FALSE]
       ELSE [levels |-> [levels EXCEPT
                           ![inst][MinOf(matching)].is_active = FALSE],
             result |-> TRUE]

BDDisable(inst, price) ==
    LET r == disable_support_level(support_levels, inst, price)
    IN /\ support_levels' = r.levels
       /\ last_call' = [op |-> "disable_support_level", instrument |-> inst,
                        price |-> price, result |-> r.result]
       /\ UNCHANGED <<bd_price_history, breakdown_history, bd_workers, bd_log>>
       /\ UNCHANGED <<bf_vars, mo_vars, replay>>

\* one iteration of monitor_instrument task w (lines 137-163): update_price
\* on the fetched candle, then the alert is stored when notify is set.
\* update_price reads every candle field with a default and has no path that
\* raises.
BDMonitorStep(inst, w, candle, now) ==
    /\ w \in 1..Len(bd_workers[inst])
    /\ LET history == bd_append(IF Has(bd_price_history, inst)
                                THEN bd_price_history[inst] ELSE <<>>, candle)
           breakdown == IF Has(support_levels, inst)
                        THEN first_breakdown(history, inst,
                                 support_levels[inst], candle, now)
                        ELSE None
       IN /\ bd_price_history' = Put(bd_price_history, inst, history)
          /\ breakdown_history' =
                IF breakdown # None /\ bd_workers[inst][w]
                THEN Put(breakdown_history, inst,
                         Append(IF Has(breakdown_history, inst)
                                THEN breakdown_history[inst] ELSE <<>>,
                                breakdown[1]))
                ELSE breakdown_history
          /\ last_call' = [op |-> "update_price", instrument |-> inst,
                           candle |-> candle, alert |-> breakdown,
                           raised |-> FALSE]
    /\ bd_log' = [bd_log EXCEPT ![inst] = Append(@, candle)]
    /\ UNCHANGED <<support_levels, bd_workers>>
    /\ UNCHANGED <<bf_vars, mo_vars, replay>>

---------------------------------------------------------------------------
\* The data source: the candles a poll may return

Candle(kind, t) ==
    [timestamp |-> t, open |-> kind.open, high |-> kind.high,
     low |-> kind.low, close |-> kind.close, volume |-> kind.volume]
KindOf(c) ==
    [open |-> c.open, high |-> c.high, low |-> c.low, close |-> c.close,
     volume |-> c.volume]

\* inside [100.0, 101.8], touching both bounds
InA == [open |-> 1005, high |-> 1018, low |-> 1000, close |-> 1010, volume |-> 100]
\* inside [100.6, 101.5]
InB == [open |-> 1008, high |-> 1015, low |-> 1006, close |-> 1010, volume |-> 100]
\* high 102.5 above either range, close 101.6 inside [100.0, 101.8]
UpX == [open |-> 1010, high |-> 1025, low |-> 1008, close |-> 1016, volume |-> 300]
\* high 103.0, close above the range
Up == [open |-> 1012, high |-> 1030, low |-> 1010, close |-> 1025, volume |-> 300]
\* low 98.0, close below the range
Down == [open |-> 1008, high |-> 1010, low |-> 980, close |-> 985, volume |-> 300]
\* close 100.5, inside [100.0, 101.8]
Fail == [open |-> 1012, high |-> 1014, low |-> 1003, close |-> 1005, volume |-> 200]

\* close 101.7, above the swing high 101.5 and inside [100.0, 101.8]
Rise == [open |-> 1008, high |-> 1018, low |-> 1007, close |-> 1017, volume |-> 200]

\* close 267.0, above 267.5 less 0.5 %
Above == [open |-> 2680, high |-> 2690, low |-> 2665, close |-> 2670, volume |-> 100]
\* close 260.0, below it, at twice the volume
Below == [open |-> 2670, high |-> 2672, low |-> 2590, close |-> 2600, volume |-> 200]

\* candles of a market that does not move, and malformed ones.  Flat and
\* FlatV: open = high = low = close at 101.0, without and with volume; Nil:
\* a record of zeros; Peak: high 103.0 above the flat range, without
\* volume; Sink: close 100.5 below the flat range, without volume;
\* BelowFlat: flat at 260.0, below the support at 267.5; Wild: close 260.0
\* with the open 270.0 above the high 267.2
FlatKinds ==
    [Flat |-> [open |-> 1010, high |-> 1010, low |-> 1010, close |-> 1010, volume |-> 0],
     FlatV |-> [open |-> 1010, high |-> 1010, low |-> 1010, close |-> 1010, volume |-> 100],
     Nil |-> [open |-> 0, high |-> 0, low |-> 0, close |-> 0, volume |-> 0],
     Peak |-> [open |-> 1010, high |-> 1030, low |-> 1010, close |-> 1025, volume |-> 0],
     Sink |-> [open |-> 1010, high |-> 1010, low |-> 1005, close |-> 1005, volume |-> 0],
     BelowFlat |-> [open |-> 2600, high |-> 2600, low |-> 2600, close |-> 2600, volume |-> 0],
     Wild |-> [open |-> 2700, high |-> 2672, low |-> 2590, close |-> 2600, volume |-> 200]]

\* bounds of the model
MaxFree == 4
MaxStarts == 1
MaxBDStarts == 2
MaxBDCandles == 7
MaxOver == 2
MaxPairBD == 1
MaxCtlStarts == 2
MaxCtlCandles == 3
MaxReplayFree == 3
MaxSwingFree == 3
MaxMoCandles == 6
MaxMalformed == 2
MaxReplayBD == 5
MaxFlatFree == 3
MaxFlatBD == 3
MaxLevels == 3
MaxNameTokens == 3
MaxOpposite == 2
MaxLevelCandles == 3
\* the lengths of the opening run of InA candles after which the quiet
\* market may narrow to InB candles
SwitchAt == {0, 2}
SupportPrices == {2675}
Tolerances == {5}
ConsolidationPeriods == {4, 5}

\* a quiet market: InA candles, then InB candles
QuietKinds(log) ==
    LET n == Len(log)
        wide == n = 0 \/ KindOf(log[n]) = InA
    IN (IF wide THEN {InA} ELSE {}) \cup
       (IF ~wide \/ n \in SwitchAt THEN {InB} ELSE {})

\* the market of the breakout-failure scenarios: quiet until a range can form,
\* then MaxFree candles of any kind
BFFeed(inst) ==
    LET n == Len(bf_log[inst])
    IN {Candle(k, n + 1) :
          k \in IF n < LOOKBACK_PERIODS THEN QuietKinds(bf_log[inst])
                ELSE IF n < LOOKBACK_PERIODS + MaxFree
                THEN {InB, UpX, Up, Down, Fail}
                ELSE {}}

BDFeed(inst) ==
    LET n == Len(bd_log[inst])
    IN {Candle(k, n + 1) : k \in IF n < MaxBDCandles THEN {Above, Below} ELSE {}}

\* the second run before its first candle, and no event from either run
EmptyDetector ==
    [range_levels |-> EmptyDict, swing_lows |-> EmptyDict,
     swing_highs |-> EmptyDict, breakout_prices |-> EmptyDict,
     breakout_direction |-> EmptyDict, price_history |-> EmptyDict,
     failure_history |-> EmptyDict, current_phase |-> EmptyDict]
EmptyReplay ==
    [detector |-> EmptyDetector, support_levels |-> EmptyDict,
     price_history |-> EmptyDict, first_events |-> <<>>,
     second_events |-> <<>>]

---------------------------------------------------------------------------
\* Specifications

InitDetectors ==
    /\ range_levels = EmptyDict
    /\ swing_lows = EmptyDict
    /\ swing_highs = EmptyDict
    /\ breakout_prices = EmptyDict
    /\ breakout_direction = EmptyDict
    /\ bf_price_history = EmptyDict
    /\ failure_history = EmptyDict
    /\ current_phase = EmptyDict
    /\ support_levels = EmptyDict
    /\ bd_price_history = EmptyDict
    /\ breakdown_history = EmptyDict
    /\ bf_workers = [i \in Instruments |-> <<>>]
    /\ bd_workers = [i \in Instruments |-> <<>>]
    /\ bf_log = [i \in Instruments |-> <<>>]
    /\ bd_log = [i \in Instruments |-> <<>>]
    /\ bf_stopped = [i \in Instruments |-> FALSE]
    /\ last_call = [op |-> "init"]
    /\ breakdown_levels = EmptyDict
    /\ momentum_levels = EmptyDict
    /\ replay = EmptyReplay

Init == InitDetectors /\ mo_call = [op |-> "init"]

\* the breakout-failure monitor
Next ==
    \E inst \in Monitored :
       \/ \E notify \in {TRUE} :
             Len(bf_workers[inst]) < MaxStarts /\ BFStart(inst, notify)
       \/ BFStop(inst)
       \/ \E c \in BFFeed(inst) : BFMonitorStep(inst, c)

Spec == Init /\ [][Next]_vars

\* the breakdown monitor
NextBD ==
    \E inst \in Monitored :
       \/ \E p \in SupportPrices, tol \in Tolerances,
             cp \in ConsolidationPeriods, notify \in BOOLEAN :
             Len(bd_workers[inst]) < MaxBDStarts
             /\ BDStart(inst, p, tol, cp, notify)
       \/ BDStop(inst)
       \/ \E w \in 1..Len(bd_workers[inst]), c \in BDFeed(inst),
             now \in WallClock : BDMonitorStep(inst, w, c, now)

SpecBD == Init /\ [][NextBD]_vars

\* both monitors polling a quiet market once a minute, in turn, until each
\* history has overflowed its cap by MaxOver candles
NextCap ==
    \E inst \in Monitored :
       \/ \E p \in SupportPrices, tol \in Tolerances :
             Len(bd_workers[inst]) = 0 /\ BDStart(inst, p, tol, 5, TRUE)
       \/ Len(bf_workers[inst]) = 0 /\ BFStart(inst, TRUE)
       \/ \E now \in WallClock :
             /\ Len(bd_log[inst]) < BD_HISTORY_CAP + MaxOver
             /\ Len(bd_log[inst]) <= Len(bf_log[inst])
             /\ BDMonitorStep(inst, 1, Candle(Above, Len(bd_log[inst]) + 1), now)
       \/ \E k \in QuietKinds(bf_log[inst]) :
             /\ Len(bf_log[inst]) < BF_HISTORY_CAP + MaxOver
             /\ \/ Len(bf_log[inst]) <= Len(bd_log[inst])
                \/ Len(bd_log[inst]) >= BD_HISTORY_CAP + MaxOver
             /\ BFMonitorStep(inst, Candle(k, Len(bf_log[inst]) + 1))

SpecCap == Init /\ [][NextCap]_vars

\* two instruments under both monitors.  Each instrument in turn is started
\* and polled through a quiet market and a breakout, so that it holds a
\* range, a breakout price, swing points and a phase; stops may come at any
\* time, and once both are warm their support levels are registered,
\* disabled and polled and one more candle arrives for each.
PairWarm == LOOKBACK_PERIODS + 1
PairCandle(inst) ==
    LET n == Len(bf_log[inst])
    IN Candle(IF n < LOOKBACK_PERIODS THEN InA
              ELSE IF n = LOOKBACK_PERIODS THEN Up ELSE Fail, n + 1)
PairTurn(inst) ==
    IF inst = InstPE THEN Len(bf_log[InstPE]) < PairWarm
    ELSE Len(bf_log[InstPE]) >= PairWarm /\ Len(bf_log[InstCE]) < PairWarm
PairReady == \A i \in Instruments : Len(bf_log[i]) >= PairWarm

NextPair ==
    \E inst \in Instruments :
       \/ PairTurn(inst) /\ Len(bf_workers[inst]) = 0 /\ BFStart(inst, TRUE)
       \/ PairTurn(inst) /\ BFMonitorStep(inst, PairCandle(inst))
       \/ BFStop(inst)
       \/ BDStop(inst)
       \/ /\ PairReady
          /\ Len(bf_log[inst]) = PairWarm
          /\ BFMonitorStep(inst, PairCandle(inst))
       \/ \E p \in SupportPrices, tol \in Tolerances :
             /\ PairReady
             /\ Len(bd_workers[inst]) = 0
             /\ BDStart(inst, p, tol, 2, TRUE)
       \/ \E p \in SupportPrices : PairReady /\ BDDisable(inst, p)
       \/ \E w \in 1..Len(bd_workers[inst]), now \in WallClock :
             /\ Len(bd_log[inst]) < MaxPairBD
             /\ BDMonitorStep(inst, w, Candle(Below, Len(bd_log[inst]) + 1), now)

SpecPair == Init /\ [][NextPair]_vars

\* one instrument started more than once, under one monitor or the other.  A
\* task polls once a minute from the time it was started, so with two tasks
\* the latest candle of the source can be the one the other task has fed
\* already.
CtlFeed(log, workers, kind) ==
    LET fresh == Candle(kind, IF Len(log) = 0 THEN 1
                              ELSE log[Len(log)].timestamp + 1)
    IN {fresh} \cup (IF Len(workers) >= 2 /\ Len(log) > 0
                     THEN {log[Len(log)]} ELSE {})

CtlIdle(workers, stop_op) ==
    \A i \in Instruments : Len(workers[i]) = 0 /\ last_call.op # stop_op

NextCtl ==
    \E inst \in Monitored :
       \/ \E notify \in BOOLEAN :
             /\ CtlIdle(bd_workers, "bd_stop")
             /\ Len(bf_workers[inst]) < MaxCtlStarts
             /\ BFStart(inst, notify)
       \/ CtlIdle(bd_workers, "bd_stop") /\ BFStop(inst)
       \/ \E c \in CtlFeed(bf_log[inst], bf_workers[inst], InA) :
             Len(bf_log[inst]) < MaxCtlCandles /\ BFMonitorStep(inst, c)
       \/ \E p \in SupportPrices, tol \in Tolerances, notify \in BOOLEAN :
             /\ CtlIdle(bf_workers, "bf_stop")
             /\ Len(bd_workers[inst]) < MaxCtlStarts
             /\ BDStart(inst, p, tol, 2, notify)
       \/ CtlIdle(bf_workers, "bf_stop") /\ BDStop(inst)
       \/ \E w \in 1..Len(bd_workers[inst]),
             c \in CtlFeed(bd_log[inst], bd_workers[inst], Below),
             now \in WallClock :
             Len(bd_log[inst]) < MaxCtlCandles /\ BDMonitorStep(inst, w, c, now)

SpecCtl == Init /\ [][NextCtl]_vars

\* two runs of the detectors from empty state that are given the same
\* support-level registrations and the same candles in the same order, each
\* run reading the wall clock for itself.  The first run is the detector of
\* the state, the second the one kept in replay.
ReplayClock == {9000, 9001}

ReplayRegister(inst, price, tolerance, consolidation_periods) ==
    /\ support_levels' = add_support_level(support_levels, inst, price,
                                           tolerance, consolidation_periods)
    /\ replay' = [replay EXCEPT
                    !.support_levels =
                        add_support_level(@, inst, price, tolerance,
                                          consolidation_periods)]
    /\ last_call' = [op |-> "add_support_level", instrument |-> inst]
    /\ UNCHANGED <<bd_price_history, breakdown_history, bd_workers, bd_log>>
    /\ UNCHANGED <<bf_vars, mo_vars>>

\* update_price (lines 66-86) on both runs
ReplayUpdatePrice(inst, candle, now1, now2) ==
    LET history1 == bd_append(IF Has(bd_price_history, inst)
                              THEN bd_price_history[inst] ELSE <<>>, candle)
        history2 == bd_append(IF Has(replay.price_history, inst)
                              THEN replay.price_history[inst] ELSE <<>>, candle)
        event1 == IF Has(support_levels, inst)
                  THEN first_breakdown(history1, inst, support_levels[inst],
                                       candle, now1)
                  ELSE None
        event2 == IF Has(replay.support_levels, inst)
                  THEN first_breakdown(history2, inst,
                                       replay.support_levels[inst], candle, now2)
                  ELSE None
    IN /\ bd_price_history' = Put(bd_price_history, inst, history1)
       /\ replay' = [replay EXCEPT
                       !.price_history = Put(@, inst, history2),
                       !.first_events = @ \o event1,
                       !.second_events = @ \o event2]
       /\ last_call' = [op |-> "update_price", instrument |-> inst,
                        candle |-> candle, alert |-> event1]
       /\ bd_log' = [bd_log EXCEPT ![inst] = Append(@, candle)]
       /\ UNCHANGED <<support_levels, breakdown_history, bd_workers>>
       /\ UNCHANGED <<bf_vars, mo_vars>>

\* process_candle (lines 326-384) on both runs
ReplayProcessCandle(inst, candle, now1, now2) ==
    LET r1 == process_candle(Detector, inst, candle, now1)
        r2 == process_candle(replay.detector, inst, candle, now2)
    IN /\ SetDetector(r1.state)
       /\ replay' = [replay EXCEPT
                       !.detector = r2.state,
                       !.first_events = @ \o r1.alert,
                       !.second_events = @ \o r2.alert]
       /\ last_call' = [op |-> "process_candle", instrument |-> inst,
                        candle |-> candle,
                        phase_before |-> PhaseOf(current_phase, inst),
                        range_before |-> Lookup(range_levels, inst),
                        alert |-> r1.alert,
                        raised |-> r1.raised]
       /\ bf_log' = [bf_log EXCEPT ![inst] = Append(@, candle)]
       /\ UNCHANGED <<bf_workers, bf_stopped>>
       /\ UNCHANGED <<bd_vars, mo_vars>>

\* the candle sequences of the replay: a quiet market and then MaxReplayFree
\* candles for the breakout-failure detector, MaxReplayBD candles for the
\* breakdown detector; a run feeds one detector
ReplayBFFeed(inst) ==
    LET n == Len(bf_log[inst])
    IN {Candle(k, n + 1) :
          k \in IF n < LOOKBACK_PERIODS THEN {InA}
                ELSE IF n < LOOKBACK_PERIODS + MaxReplayFree
                THEN {Up, Down, Fail}
                ELSE {}}

NextReplay ==
    \E inst \in Monitored :
       \/ \E p \in SupportPrices, tol \in Tolerances,
             cp \in ConsolidationPeriods :
             /\ Len(bf_log[inst]) = 0
             /\ ~Has(support_levels, inst)
             /\ ReplayRegister(inst, p, tol, cp)
       \/ \E k \in {Above, Below}, now1 \in ReplayClock, now2 \in ReplayClock :
             /\ Len(bf_log[inst]) = 0
             /\ Len(bd_log[inst]) < MaxReplayBD
             /\ ReplayUpdatePrice(inst, Candle(k, Len(bd_log[inst]) + 1),
                                  now1, now2)
       \/ \E c \in ReplayBFFeed(inst), now1 \in ReplayClock,
             now2 \in ReplayClock :
             /\ Len(bd_log[inst]) = 0
             /\ ~Has(support_levels, inst)
             /\ ReplayProcessCandle(inst, c, now1, now2)

SpecReplay == Init /\ [][NextReplay]_vars

\* a breakout shortly before a periodic swing update: SwingWide candles
\* inside [100.0, 101.8], then a narrower market up to SwingQuiet candles, so
\* that the swing points (last 30 candles) lie inside the range (last 50),
\* then MaxSwingFree candles of any kind
SwingWide == 10
SwingQuiet == 57
SwingFeed(inst) ==
    LET n == Len(bf_log[inst])
    IN {Candle(k, n + 1) :
          k \in IF n < SwingWide THEN {InA}
                ELSE IF n < SwingQuiet THEN {InB}
                ELSE IF n < SwingQuiet + MaxSwingFree
                THEN {InB, Up, Down, Fail, Rise}
                ELSE {}}

NextSwing ==
    \E inst \in Monitored :
       \/ Len(bf_workers[inst]) = 0 /\ BFStart(inst, TRUE)
       \/ Len(bf_log[inst]) >= SwingQuiet /\ BFStop(inst)
       \/ \E c \in SwingFeed(inst) : BFMonitorStep(inst, c)

SpecSwing == Init /\ [][NextSwing]_vars

\* direct calls of the momentum detector on one opposite-leg history, any
\* selection in time order of the first MaxMoCandles of these candles: the
\* i-th lies MoOffset[i] minutes from the breakdown and has low MoLow[i];
\* the third is red, the others are green.
BreakdownTime == 100
MoOffset == <<-1, 0, 1, 2, 5, 6, 7, 8>>
MoLow == <<480, 500, 470, 510, 520, 540, 550, 560>>
MoCandle(i) ==
    [timestamp |-> BreakdownTime + MoOffset[i],
     open |-> MoLow[i] + 10,
     high |-> MoLow[i] + 30,
     low |-> MoLow[i],
     close |-> IF i = 3 THEN MoLow[i] + 5 ELSE MoLow[i] + 20,
     volume |-> 100]
MoHistory(chosen) ==
    SelectSeq([i \in 1..MaxMoCandles |-> MoCandle(i)],
              LAMBDA c : \E i \in chosen : c = MoCandle(i))
MoHistories == {MoHistory(chosen) : chosen \in SUBSET (1..MaxMoCandles)}
\* the confirming candles of the breakdown: none, one or two red candles
RedCandle(i) ==
    [timestamp |-> BreakdownTime - 2 + i, open |-> 2670, high |-> 2672,
     low |-> 2600 - 10 * i, close |-> 2610 - 10 * i, volume |-> 200]
RedLists == {<<>>, <<RedCandle(1)>>, <<RedCandle(1), RedCandle(2)>>}
MoNames == {InstrumentName[InstCE]}
MoLookbacks == {2, 5}

MoDetect(name, history, breakdown_time, lookback_minutes, now) ==
    LET m == detect_momentum_in_opposite_side(
                 breakdown_levels, name, history, breakdown_time,
                 lookback_minutes, now)
    IN /\ mo_call' = [op |-> "detect_momentum", instrument |-> name,
                      history |-> history, breakdown_time |-> breakdown_time,
                      lookback_minutes |-> lookback_minutes,
                      outcome |-> m.outcome, level |-> m.level]
       /\ UNCHANGED <<breakdown_levels, momentum_levels>>
       /\ UNCHANGED <<bf_vars, bd_vars, last_call, replay>>

MoCalculate(name, history, breakdown_time, red_candles, now) ==
    LET r == calculate_entry_point(
                 Momentum(breakdown_levels, momentum_levels), name, history,
                 breakdown_time, red_candles, now)
    IN /\ breakdown_levels' = r.state.breakdown_levels
       /\ momentum_levels' = r.state.momentum_levels
       /\ mo_call' = [op |-> "calculate_entry_point", instrument |-> name,
                      history |-> history, breakdown_time |-> breakdown_time,
                      lookback_minutes |-> DEFAULT_LOOKBACK_MINUTES,
                      red_candles |-> red_candles,
                      outcome |-> r.outcome, entry |-> r.entry]
       /\ UNCHANGED <<bf_vars, bd_vars, last_call, replay>>

\* the opposite-leg history is drawn at the start and the calls are made
\* on it
InitMomentum ==
    /\ InitDetectors
    /\ mo_call \in {[op |-> "init", history |-> h] : h \in MoHistories}

NextMomentum ==
    \E name \in MoNames, now \in WallClock :
       \/ \E lookback \in MoLookbacks :
             MoDetect(name, mo_call.history, BreakdownTime, lookback, now)
       \/ \E red \in RedLists :
             MoCalculate(name, mo_call.history, BreakdownTime, red, now)

SpecMomentum == InitMomentum /\ [][NextMomentum]_vars

\* direct calls of the momentum detector with malformed instrument names:
\* the empty name, the single token "CE", "N X CE" whose strike token is no
\* number, "N 7" without a leg, and the well-formed "N 7 CE"
MalformedNames ==
    {<<>>, <<"C", "E">>, <<"N", " ", "X", " ", "C", "E">>,
     <<"N", " ", "7">>, <<"N", " ", "7", " ", "C", "E">>}

NextStrike ==
    \E name \in MalformedNames, now \in WallClock :
       \/ \E lookback \in MoLookbacks :
             MoDetect(name, mo_call.history, BreakdownTime, lookback, now)
       \/ MoCalculate(name, mo_call.history, BreakdownTime,
                      <<RedCandle(1), RedCandle(2)>>, now)

SpecStrike == InitMomentum /\ [][NextStrike]_vars

\* records of the data source with fields missing: after a quiet market of
\* MalformedAfter candles the breakout-failure monitor, or else from the
\* start the breakdown monitor, is polled with MaxMalformed candles that
\* lack any of these sets of fields
MalformedAfter == LOOKBACK_PERIODS - 1
AllFields == {"timestamp", "open", "high", "low", "close", "volume"}
MissingSets ==
    {{}, {"high"}, {"low"}, {"timestamp"}, {"open", "close", "volume"},
     AllFields}
Without(candle, missing) == [f \in (DOMAIN candle) \ missing |-> candle[f]]
MalformedBFFeed(inst) ==
    LET n == Len(bf_log[inst])
    IN IF n < MalformedAfter THEN {Candle(InB, n + 1)}
       ELSE IF n < MalformedAfter + MaxMalformed
       THEN {Without(Candle(k, n + 1), m) : k \in {InB, Up}, m \in MissingSets}
       ELSE {}
MalformedBDFeed(inst) ==
    LET n == Len(bd_log[inst])
    IN IF n < MaxMalformed + 1
       THEN {Without(Candle(Below, n + 1), m) : m \in MissingSets}
       ELSE {}

NextMalformed ==
    \E inst \in Monitored :
       \/ /\ Len(bf_workers[inst]) = 0 /\ Len(bd_workers[inst]) = 0
          /\ BFStart(inst, TRUE)
       \/ \E c \in MalformedBFFeed(inst) : BFMonitorStep(inst, c)
       \/ \E p \in SupportPrices, tol \in Tolerances :
             /\ Len(bf_workers[inst]) = 0 /\ Len(bd_workers[inst]) = 0
             /\ BDStart(inst, p, tol, 2, TRUE)
       \/ \E c \in MalformedBDFeed(inst), now \in WallClock :
             BDMonitorStep(inst, 1, c, now)

SpecMalformed == Init /\ [][NextMalformed]_vars

\* degenerate candles: the breakout-failure monitor polled through a run of
\* LOOKBACK_PERIODS equal flat candles and then MaxFlatFree candles, or else
\* the breakdown monitor polled with MaxFlatBD candles below the support,
\* flat or with the open outside [low, high]
FlatBFFeed(inst) ==
    LET n == Len(bf_log[inst])
    IN {Candle(k, n + 1) :
          k \in IF n = 0 THEN {FlatKinds.Flat, FlatKinds.FlatV, FlatKinds.Nil}
                ELSE IF n < LOOKBACK_PERIODS THEN {KindOf(bf_log[inst][n])}
                ELSE IF n < LOOKBACK_PERIODS + MaxFlatFree
                THEN {FlatKinds.Flat, FlatKinds.Peak, FlatKinds.Sink}
                ELSE {}}
FlatBDFeed(inst) ==
    LET n == Len(bd_log[inst])
    IN {Candle(k, n + 1) :
          k \in IF n < MaxFlatBD THEN {FlatKinds.BelowFlat, FlatKinds.Wild, Below} ELSE {}}
ShortPeriods == {1, 2}

NextFlat ==
    \E inst \in Monitored :
       \/ /\ Len(bf_workers[inst]) = 0 /\ Len(bd_workers[inst]) = 0
          /\ BFStart(inst, TRUE)
       \/ \E c \in FlatBFFeed(inst) : BFMonitorStep(inst, c)
       \/ \E p \in SupportPrices, tol \in Tolerances, cp \in ShortPeriods :
             /\ Len(bf_workers[inst]) = 0 /\ Len(bd_workers[inst]) = 0
             /\ BDStart(inst, p, tol, cp, TRUE)
       \/ \E c \in FlatBDFeed(inst), now \in WallClock :
             BDMonitorStep(inst, 1, c, now)

SpecFlat == Init /\ [][NextFlat]_vars

\* instrument names of up to MaxNameTokens tokens separated by one space,
\* as a caller can pass them: a name is drawn at the start and
\* get_opposite_instrument is applied to it, then to its own result
RECURSIVE JoinTokens(_)
JoinTokens(tokens) ==
    IF Len(tokens) = 0 THEN <<>>
    ELSE IF Len(tokens) = 1 THEN tokens[1]
    ELSE tokens[1] \o <<Space>> \o JoinTokens(Tail(tokens))
Names ==
    LET NameTokens == {<<"N">>, <<"C", "E">>, <<"P", "E">>, <<"C", "E", "X">>}
    IN {JoinTokens(tokens) :
           tokens \in UNION {[1..n -> NameTokens] : n \in 1..MaxNameTokens}}

MoOpposite(original, name, calls) ==
    /\ mo_call' = [op |-> "get_opposite_instrument", original |-> original,
                   instrument |-> name,
                   result |-> get_opposite_instrument(name),
                   calls |-> calls]
    /\ UNCHANGED <<breakdown_levels, momentum_levels>>
    /\ UNCHANGED <<bf_vars, bd_vars, last_call, replay>>

InitNames ==
    /\ InitDetectors
    /\ mo_call \in {[op |-> "init", name |-> n] : n \in Names}

NextNames ==
    \/ /\ mo_call.op = "init"
       /\ MoOpposite(mo_call.name, mo_call.name, 1)
    \/ /\ mo_call.op = "get_opposite_instrument"
       /\ mo_call.calls < MaxOpposite
       /\ MoOpposite(mo_call.original, mo_call.result, mo_call.calls + 1)

SpecNames == InitNames /\ [][NextNames]_vars

\* several support levels of one instrument: up to MaxLevels levels are
\* registered at these prices, levels are disabled by price, and the
\* breakdown monitor is polled with MaxLevelCandles candles
LevelPrices == {2675, 2700}

NextLevels ==
    \E inst \in Monitored :
       \/ \E p \in LevelPrices, tol \in Tolerances, cp \in ShortPeriods :
             /\ Len(bd_workers[inst]) < MaxLevels
             /\ BDStart(inst, p, tol, cp, TRUE)
       \/ \E p \in LevelPrices : BDDisable(inst, p)
       \/ \E k \in {Above, Below}, now \in WallClock :
             /\ Len(bd_log[inst]) < MaxLevelCandles
             /\ BDMonitorStep(inst, 1, Candle(k, Len(bd_log[inst]) + 1), now)

SpecLevels == Init /\ [][NextLevels]_vars

---------------------------------------------------------------------------
\* Properties

IsProcess == last_call.op = "process_candle"
IsUpdate == last_call.op = "update_price"
CallInst == last_call.instrument
Inside(c, r) == c.high <= r.upper_bound /\ c.low >= r.lower_bound

\* the number of the last k candles of history that close below the
\* support's threshold, and whether that is at least 60 % of k
ClosesBelow(history, k, support) ==
    Cardinality({i \in 1..Len(history) :
        /\ i > Len(history) - k
        /\ 1000 * history[i].close < support.price * (1000 - support.tolerance)})
SixtyPercentBelow(history, support) ==
    /\ Len(history) >= support.consolidation_periods
    /\ 10 * ClosesBelow(history, support.consolidation_periods, support)
          >= 6 * support.consolidation_periods

\* C1: update_price returns a BreakdownEvent only for an active support level
\* whose threshold price*(1 - tolerance/100) the current close is below and
\* below which at least 60 % of the last consolidation_periods candles,
\* the current one included, have closed.
C1_BreakdownOnlyWhenSixtyPercentBelow ==
    (IsUpdate /\ last_call.alert # None) =>
        \E i \in 1..Len(support_levels[CallInst]) :
           LET s == support_levels[CallInst][i]
           IN /\ s.is_active
              /\ s.price = last_call.alert[1].support_level
              /\ 1000 * last_call.candle.close < s.price * (1000 - s.tolerance)
              /\ SixtyPercentBelow(bd_price_history[CallInst], s)

\* C2: a process_candle call that starts in a BREAKOUT phase leaves the phase
\* as it was or, returning a failure event, resets it to CONSOLIDATION; it
\* never turns BREAKOUT_UP into BREAKOUT_DOWN or the reverse.
C2_NoDirectBreakoutFlip ==
    (IsProcess /\ last_call.phase_before \in {BREAKOUT_UP, BREAKOUT_DOWN}) =>
        LET after == PhaseOf(current_phase, CallInst)
        IN \/ after = last_call.phase_before
           \/ after = CONSOLIDATION /\ last_call.alert # None

\* C3 as stated: in BREAKOUT_UP a close below upperBound, in BREAKOUT_DOWN a
\* close above lowerBound, returns the failure event on that call whatever
\* the candle's high and low.
C3_FailureOnAnyCloseInside ==
    (IsProcess /\ last_call.range_before # None) =>
        LET r == last_call.range_before[1]
            c == last_call.candle
        IN /\ (last_call.phase_before = BREAKOUT_UP /\ c.close < r.upper_bound)
                 => (last_call.alert # None
                     /\ last_call.alert[1].direction = "up_failure")
           /\ (last_call.phase_before = BREAKOUT_DOWN /\ c.close > r.lower_bound)
                 => (last_call.alert # None
                     /\ last_call.alert[1].direction = "down_failure")

\* C4: after a process_candle call that returns a BreakoutFailureEvent the
\* instrument has no stored RangeLevel and no breakout price, and its phase
\* is CONSOLIDATION, also when the swing point was broken on that call.
C4_ResetAfterFailure ==
    (IsProcess /\ last_call.alert # None) =>
        /\ ~Has(range_levels, CallInst)
        /\ ~Has(breakout_prices, CallInst)
        /\ Has(current_phase, CallInst)
        /\ current_phase[CallInst] = CONSOLIDATION

C4_Witness ==
    /\ IsProcess
    /\ last_call.alert # None
    /\ last_call.alert[1].swing_low_broken
    /\ swing_lows[CallInst].is_broken
    /\ current_phase[CallInst] = CONSOLIDATION

\* the lookback window of a history and its width test, as the claim words it
Window(history) ==
    [i \in 1..(IF Len(history) < 50 THEN Len(history) ELSE 50) |->
        history[Len(history) - (IF Len(history) < 50 THEN Len(history) ELSE 50) + i]]
WidthBelowTwoPercent(w) ==
    LET hi == MaxOf({w[i].high : i \in 1..Len(w)})
        lo == MinOf({w[i].low : i \in 1..Len(w)})
    IN hi + lo > 0 /\ 200 * (hi - lo) < 2 * (hi + lo)
SameRange(a, b) ==
    /\ a.upper_bound = b.upper_bound
    /\ a.lower_bound = b.lower_bound
    /\ a.start_time = b.start_time
    /\ a.touch_count = b.touch_count
\* the call stored a RangeLevel that was not there before it
RangeStoredByCall ==
    /\ IsProcess
    /\ Has(range_levels, CallInst)
    /\ \/ last_call.range_before = None
       \/ ~SameRange(range_levels[CallInst], last_call.range_before[1])

\* C5: a process_candle call creates or replaces the stored RangeLevel only
\* when the lookback window is narrower than 2 % of its midpoint and holds at
\* least min_range_candles (20) candles, and the range stored is the window's
\* highest high and lowest low.
C5_RangeOnlyWhenTight ==
    RangeStoredByCall =>
        LET w == Window(bf_price_history[CallInst])
        IN /\ WidthBelowTwoPercent(w)
           /\ Len(w) >= 20
           /\ range_levels[CallInst].upper_bound
                 = MaxOf({w[i].high : i \in 1..Len(w)})
           /\ range_levels[CallInst].lower_bound
                 = MinOf({w[i].low : i \in 1..Len(w)})

C5_Witness ==
    /\ RangeStoredByCall
    /\ last_call.range_before # None
    /\ range_levels[CallInst].upper_bound
          > last_call.range_before[1].upper_bound

\* C6: 25 candles confined to [100, 101.8] leave a RangeLevel with upperBound
\* 101.8; a 26th candle with high 103 then moves the phase to BREAKOUT_UP,
\* and a 27th closing at 100.5 returns an up_failure event.
Confined25(log) ==
    /\ Len(log) >= 25
    /\ \A i \in 1..25 : log[i].high <= 1018 /\ log[i].low >= 1000
    /\ \E i \in 1..25 : log[i].high = 1018
    /\ \E i \in 1..25 : log[i].low = 1000
C6_ScenarioB ==
    \A inst \in Monitored :
       Confined25(bf_log[inst]) =>
          /\ Len(bf_log[inst]) = 25 =>
                /\ Has(range_levels, inst)
                /\ range_levels[inst].upper_bound = 1018
          /\ (Len(bf_log[inst]) = 26 /\ bf_log[inst][26].high = 1030) =>
                PhaseOf(current_phase, inst) = BREAKOUT_UP
          /\ (Len(bf_log[inst]) = 27 /\ bf_log[inst][26].high = 1030
              /\ bf_log[inst][27].close = 1005 /\ IsProcess) =>
                (last_call.alert # None
                 /\ last_call.alert[1].direction = "up_failure")

\* C7: the breakdown detector holds at most 100 candles per instrument and
\* the breakout-failure detector at most 200, however many were ingested.
C7_HistoryCapped ==
    /\ \A inst \in DOMAIN bd_price_history : Len(bd_price_history[inst]) <= 100
    /\ \A inst \in DOMAIN bf_price_history : Len(bf_price_history[inst]) <= 200

C7_Witness ==
    \E inst \in Monitored :
       /\ Len(bd_log[inst]) > 100
       /\ Len(bd_price_history[inst]) = 100
       /\ Len(bf_log[inst]) > 200
       /\ Len(bf_price_history[inst]) = 200

\* the last min(n, cap) of the n candles fed, in arrival order
Latest(log, cap) ==
    LET n == Len(log)
        k == IF n < cap THEN n ELSE cap
    IN [i \in 1..k |-> log[n - k + i]]

\* C8: each history is exactly the last min(n, cap) candles fed to the
\* detector, oldest first.
C8_HistoryIsLatestInOrder ==
    /\ \A inst \in DOMAIN bd_price_history :
          bd_price_history[inst] = Latest(bd_log[inst], 100)
    /\ \A inst \in DOMAIN bf_price_history :
          bf_price_history[inst] = Latest(bf_log[inst], 200)

C8_Witness ==
    \E inst \in Monitored :
       /\ Len(bd_log[inst]) = 102
       /\ bd_price_history[inst][1].timestamp = 3
       /\ bd_price_history[inst][100].timestamp = 102
       /\ Len(bf_log[inst]) = 202
       /\ bf_price_history[inst][1].timestamp = 3
       /\ bf_price_history[inst][200].timestamp = 202

\* C9: a successful stop leaves the instrument no candle history, no range
\* level, no breakout price and no phase (breakout-failure monitor), and no
\* candle history and no support level (breakdown monitor).
C9_StopDropsAllState ==
    /\ (last_call.op = "bf_stop" /\ last_call.status = 200) =>
          /\ ~Has(bf_price_history, CallInst)
          /\ ~Has(range_levels, CallInst)
          /\ ~Has(breakout_prices, CallInst)
          /\ ~Has(current_phase, CallInst)
    /\ (last_call.op = "bd_stop" /\ last_call.status = 200) =>
          /\ ~Has(bd_price_history, CallInst)
          /\ ~Has(support_levels, CallInst)

\* C10: no failure event is returned for an instrument whose monitoring was
\* stopped and not started again.
C10_NoEventAfterStop ==
    (IsProcess /\ last_call.alert # None) => ~bf_stopped[CallInst]

\* the instrument is a key of no dict of the breakout-failure detector /
\* of the breakdown detector
NoBFState(inst) ==
    /\ ~Has(bf_price_history, inst) /\ ~Has(range_levels, inst)
    /\ ~Has(breakout_prices, inst) /\ ~Has(breakout_direction, inst)
    /\ ~Has(swing_lows, inst) /\ ~Has(swing_highs, inst)
    /\ ~Has(failure_history, inst) /\ ~Has(current_phase, inst)
NoBDState(inst) ==
    /\ ~Has(support_levels, inst) /\ ~Has(bd_price_history, inst)
    /\ ~Has(breakdown_history, inst)
DetectorState ==
    <<range_levels, swing_lows, swing_highs, breakout_prices,
      breakout_direction, bf_price_history, failure_history, current_phase,
      support_levels, bd_price_history, breakdown_history>>

\* C11: a stop for an instrument that is a key of no dict of the monitor's
\* detector is answered 404 and changes no dict of either detector, for any
\* instrument; and a start that follows such a stop leaves the instrument
\* with no candle history.
C11_StopOfUnknownIsNotFound ==
    [][\A inst \in Instruments :
          /\ (NoBFState(inst) /\ last_call'.op = "bf_stop"
              /\ last_call'.instrument = inst)
                => (last_call'.status = 404 /\ UNCHANGED DetectorState)
          /\ (NoBDState(inst) /\ last_call'.op = "bd_stop"
              /\ last_call'.instrument = inst)
                => (last_call'.status = 404 /\ UNCHANGED DetectorState)
          /\ (last_call'.op = "bf_start" /\ last_call'.instrument = inst
              /\ last_call'.after_not_found /\ NoBFState(inst))
                => ~Has(bf_price_history', inst)
          /\ (last_call'.op = "bd_start" /\ last_call'.instrument = inst
              /\ last_call'.after_not_found /\ NoBDState(inst))
                => ~Has(bd_price_history', inst)]_vars

\* a 404 for an instrument without state while the other instrument holds a
\* range and a history, and then the start that follows it
C11_Witness ==
    /\ last_call.op = "bd_start"
    /\ last_call.after_not_found
    /\ ~Has(bd_price_history, CallInst)
    /\ Len(support_levels[CallInst]) = 1
    /\ \E other \in Instruments \ {CallInst} :
          Has(range_levels, other) /\ Len(bf_price_history[other]) > 0

\* C12: a start that directly follows a start of the same monitor with the
\* same instrument and parameters changes neither the monitoring workers nor
\* the registered support levels.
C12_StartIsIdempotent ==
    [][(last_call.op \in {"bf_start", "bd_start"} /\ last_call' = last_call)
          => UNCHANGED <<bf_workers, bd_workers, support_levels>>]_vars

\* the timestamps of a log increase strictly: no candle was fed twice or out
\* of order
FedOnceInOrder(log) ==
    \A i \in 1..(Len(log) - 1) : log[i].timestamp < log[i + 1].timestamp

\* C13: each detector has at most one monitoring worker per instrument, and
\* the candles fed to it for the instrument are each fed once, in arrival
\* order.
C13_OneWorkerFeedsOnceInOrder ==
    \A inst \in Instruments :
       /\ Len(bf_workers[inst]) <= 1
       /\ Len(bd_workers[inst]) <= 1
       /\ FedOnceInOrder(bf_log[inst])
       /\ FedOnceInOrder(bd_log[inst])

\* the state the detectors hold for one instrument
FrameOf(inst) ==
    [bf_history |-> Lookup(bf_price_history, inst),
     range_level |-> Lookup(range_levels, inst),
     breakout_price |-> Lookup(breakout_prices, inst),
     swing_low |-> Lookup(swing_lows, inst),
     swing_high |-> Lookup(swing_highs, inst),
     phase |-> Lookup(current_phase, inst),
     support_levels |-> Lookup(support_levels, inst),
     bd_history |-> Lookup(bd_price_history, inst)]
FrameOps ==
    {"update_price", "process_candle", "bd_start", "disable_support_level",
     "bf_stop", "bd_stop"}

\* C14: update_price, process_candle, add_support_level (through start),
\* disable_support_level and stop-monitoring for instrument A leave history,
\* support levels, range level, breakout price, swing points and phase of
\* every other instrument as they were.
C14_OtherInstrumentsUntouched ==
    [][\A b \in Instruments :
          (last_call'.op \in FrameOps /\ last_call'.instrument # b)
             => FrameOf(b)' = FrameOf(b)]_vars

\* a stop that disabled the levels of one instrument while the other holds
\* an active level, a range, a breakout price, swing points and histories
C14_Witness ==
    /\ last_call.op = "bd_stop"
    /\ last_call.status = 200
    /\ \A i \in 1..Len(support_levels[CallInst]) :
          ~support_levels[CallInst][i].is_active
    /\ \E b \in Instruments \ {CallInst} :
          /\ Has(support_levels, b)
          /\ \E i \in 1..Len(support_levels[b]) : support_levels[b][i].is_active
          /\ Has(bd_price_history, b)
          /\ Has(range_levels, b)
          /\ Has(breakout_prices, b)
          /\ Has(swing_lows, b)
          /\ Has(swing_highs, b)
          /\ current_phase[b] = BREAKOUT_UP

\* C15: two runs from empty state with the same registrations and the same
\* candles in the same order have emitted the same events, equal in every
\* field, the event time included.
C15_ReplayEmitsSameEvents ==
    replay.first_events = replay.second_events

\* C16: a swing low or swing high that is marked broken is still marked
\* broken after any later process_candle call for the instrument.
C16_BrokenStaysBroken ==
    [][\A inst \in Instruments :
          last_call'.op = "process_candle" =>
             /\ (Has(swing_lows, inst) /\ swing_lows[inst].is_broken)
                   => (Has(swing_lows', inst) /\ swing_lows'[inst].is_broken)
             /\ (Has(swing_highs, inst) /\ swing_highs[inst].is_broken)
                   => (Has(swing_highs', inst) /\ swing_highs'[inst].is_broken)
      ]_vars

\* the candles of a history with close > open and a timestamp t with
\* breakdown_time <= t <= breakdown_time + lookback
GreenInWindow(history, breakdown_time, lookback) ==
    SelectSeq(history,
              LAMBDA c : /\ c.close > c.open
                         /\ breakdown_time <= c.timestamp
                         /\ c.timestamp <= breakdown_time + lookback)
MoGreen ==
    GreenInWindow(mo_call.history, mo_call.breakdown_time,
                  mo_call.lookback_minutes)
IsMoCall == mo_call.op \in {"detect_momentum", "calculate_entry_point"}

\* C17: detect_momentum_in_opposite_side and calculate_entry_point return an
\* entry only when the history holds at least 2 green candles inside the
\* lookback window, and with exactly one such candle they return none.
C17_EntryNeedsTwoGreenCandles ==
    IsMoCall =>
       /\ mo_call.outcome \in {"level", "entry"} => Len(MoGreen) >= 2
       /\ Len(MoGreen) = 1 => mo_call.outcome = "none"

C19_NoneBelowTwoConfirmingCandles ==
    (mo_call.op = "calculate_entry_point" /\ Len(mo_call.red_candles) < 2)
       => mo_call.outcome = "none"

\* C20: update_price and process_candle return for every candle record,
\* whichever fields it lacks; neither raises.
C20_MalformedCandleNeverRaises ==
    (IsProcess \/ IsUpdate) => ~last_call.raised

\* a quotient has a value: its denominator is not 0
Defined(f) == f.den # 0

\* the bounds of the window detect_range evaluates on the history the call
\* left
WindowUpper(inst) ==
    LET recent == LastN(bf_price_history[inst], LOOKBACK_PERIODS)
    IN MaxOf({Get(recent[i], "high", 0) : i \in 1..Len(recent)})
WindowLower(inst) ==
    LET recent == LastN(bf_price_history[inst], LOOKBACK_PERIODS)
    IN MinOf({Get(recent[i], "low", 0) : i \in 1..Len(recent)})
RangeEvaluated ==
    /\ IsProcess
    /\ last_call.phase_before = CONSOLIDATION
    /\ Len(bf_price_history[CallInst]) >= LOOKBACK_PERIODS

\* the volumes of the candles before the current one that the event of the
\* first support level is computed from
PrecedingVolume ==
    SumOf(AllButLast(LastN(bd_price_history[CallInst],
                           support_levels[CallInst][1].consolidation_periods)),
          "volume")

\* C21: every percentage the detectors compute has a value: the candle body
\* ratio of a breakdown event is 0 when the candle's high equals its low,
\* its volume increase is 0 when the preceding candles have no volume, the
\* volume spike of a failure event is 0 when the earlier candles have no
\* volume, and the range width percentage is 0 when the bounds add up to 0.
C21_PercentagesAreDefined ==
    /\ (IsUpdate /\ last_call.alert # None) =>
          LET a == last_call.alert[1]
              c == last_call.candle
          IN /\ Defined(a.candle_body_ratio)
             /\ Defined(a.volume_increase)
             /\ Get(c, "high", 0) = Get(c, "low", 0)
                   => a.candle_body_ratio.num = 0
             /\ PrecedingVolume = 0 => a.volume_increase.num = 0
    /\ (IsProcess /\ last_call.alert # None) =>
          LET a == last_call.alert[1]
          IN /\ Defined(a.volume_spike)
             /\ SumOf(AllButLast(bf_price_history[CallInst]), "volume") = 0
                   => a.volume_spike.num = 0
    /\ RangeEvaluated =>
          LET p == range_percentage(WindowUpper(CallInst), WindowLower(CallInst))
          IN /\ Defined(p)
             /\ WindowUpper(CallInst) + WindowLower(CallInst) = 0 => p.num = 0

\* a breakdown event on a flat candle after a candle without volume: both
\* denominators are 0 and both percentages are 0
C21_Witness ==
    /\ IsUpdate
    /\ last_call.alert # None
    /\ last_call.candle.high = last_call.candle.low
    /\ Len(bd_price_history[CallInst]) >= 2
    /\ PrecedingVolume = 0
    /\ last_call.alert[1].candle_body_ratio = Zero
    /\ last_call.alert[1].volume_increase = Zero

\* Scenario A: the one support level of the instrument is active with price
\* 267.5, tolerance 0.5 % and 5 consolidation periods, and the first 4
\* candles closed above the threshold
ScenarioA ==
    /\ IsUpdate
    /\ Len(bd_log[CallInst]) >= 5
    /\ support_levels[CallInst] =
          <<[price |-> 2675, tolerance |-> 5, min_touches |-> 2,
             consolidation_periods |-> 5, is_active |-> TRUE]>>
    /\ \A i \in 1..4 :
          ~below_support(bd_log[CallInst][i].close, support_levels[CallInst][1])
\* at least 3 of the 5 closes up to candle n are below the threshold
ThreeOfFiveBelow(n) ==
    ClosesBelow(SubSeq(bd_log[CallInst], 1, n), 5,
                support_levels[CallInst][1]) >= 3

\* C22: in Scenario A the first candle that closes below the threshold
\* returns no event, an event is returned only with at least 3 of the last 5
\* closes below the threshold, and the first candle at which that holds
\* returns one.
C22_ScenarioA ==
    ScenarioA =>
       LET n == Len(bd_log[CallInst])
       IN /\ n = 5 => last_call.alert = None
          /\ last_call.alert # None => ThreeOfFiveBelow(n)
          /\ (ThreeOfFiveBelow(n) /\ \A m \in 5..(n - 1) : ~ThreeOfFiveBelow(m))
                => last_call.alert # None

\* 4 closes above, then 3 closes at 260.0: the event comes with the third
C22_Witness ==
    /\ ScenarioA
    /\ Len(bd_log[CallInst]) = 7
    /\ \A i \in 5..7 : bd_log[CallInst][i].close = 2600
    /\ last_call.alert # None
    /\ last_call.alert[1].breakdown_price = 2600

\* C23: after disable_support_level returned true, every support level of
\* the instrument whose price is within 0.1 of the given price is inactive.
C23_MatchingLevelsAreInactive ==
    (last_call.op = "disable_support_level" /\ last_call.result) =>
       \A i \in 1..Len(support_levels[CallInst]) :
          Abs(support_levels[CallInst][i].price - last_call.price) < 1
             => ~support_levels[CallInst][i].is_active

\* the support levels of the instrument that are active and confirm a
\* breakdown on the candle of the call
Confirming ==
    IF Has(support_levels, CallInst)
    THEN {i \in 1..Len(support_levels[CallInst]) :
             /\ support_levels[CallInst][i].is_active
             /\ \E now \in WallClock :
                   _check_breakdown(bd_price_history[CallInst], CallInst,
                                    support_levels[CallInst][i],
                                    last_call.candle, now) # None}
    ELSE {}

\* C30: update_price returns the event of the earliest-registered active
\* support level that confirms a breakdown on the candle, and none when no
\* active level confirms one.
C30_EarliestRegisteredLevelWins ==
    IsUpdate =>
       IF Confirming = {} THEN last_call.alert = None
       ELSE /\ last_call.alert # None
            /\ last_call.alert[1] =
                  _check_breakdown(bd_price_history[CallInst], CallInst,
                                   support_levels[CallInst][MinOf(Confirming)],
                                   last_call.candle,
                                   last_call.alert[1].breakdown_time)[1]

\* an inactive level at 270.0 registered first, then active levels at 267.5
\* and 270.0 that both confirm: the event is the one of 267.5
C30_Witness ==
    /\ IsUpdate
    /\ Len(support_levels[CallInst]) = 3
    /\ ~support_levels[CallInst][1].is_active
    /\ support_levels[CallInst][1].price = 2700
    /\ support_levels[CallInst][2].price = 2675
    /\ support_levels[CallInst][3].price = 2700
    /\ Confirming = {2, 3}
    /\ last_call.alert # None
    /\ last_call.alert[1].support_level = 2675

\* the last token of a name, <<>> for a name without tokens
LastToken(name) ==
    LET t == Split(name) IN IF Len(t) = 0 THEN <<>> ELSE t[Len(t)]
\* the tokens of a name with the last one replaced
WithLastToken(name, token) ==
    LET t == Split(name) IN [t EXCEPT ![Len(t)] = token]
IsOpposite == mo_call.op = "get_opposite_instrument"

\* C24: get_opposite_instrument changes only the last token of a name: a
\* name ending in the token CE (PE) keeps its tokens except that the last
\* becomes PE (CE), applying it twice gives the name back, and a name whose
\* last token is neither is returned unchanged.
C24_OnlyTheTrailingLegChanges ==
    IsOpposite =>
       LET first == mo_call.calls = 1
           last == LastToken(mo_call.original)
       IN /\ (first /\ last = <<"C", "E">>) =>
                Split(mo_call.result)
                   = WithLastToken(mo_call.instrument, <<"P", "E">>)
          /\ (first /\ last = <<"P", "E">>) =>
                Split(mo_call.result)
                   = WithLastToken(mo_call.instrument, <<"C", "E">>)
          /\ (first /\ last \notin {<<"C", "E">>, <<"P", "E">>}) =>
                mo_call.result = mo_call.instrument
          /\ (mo_call.calls = 2 /\ last \in {<<"C", "E">>, <<"P", "E">>}) =>
                mo_call.result = mo_call.original

\* the candle body ratio of the candle of the call, as update_price
\* computes it for the event
CallBodyRatio ==
    body_ratio(Abs(last_call.candle.close - last_call.candle.open),
               last_call.candle.high - last_call.candle.low)

\* C25: every BreakdownEvent returned by update_price has a candle body
\* ratio between 0 and 1 inclusive.
C25_BodyRatioWithinUnit ==
    (IsUpdate /\ last_call.alert # None) =>
       /\ last_call.alert[1].candle_body_ratio = CallBodyRatio
       /\ Defined(CallBodyRatio)
       /\ 0 <= CallBodyRatio.num
       /\ CallBodyRatio.num <= CallBodyRatio.den

\* C26: each instrument has at most one stored RangeLevel (range_levels
\* holds one RangeLevel per instrument name), and every stored RangeLevel
\* has its upper bound strictly above its lower bound.
C26_StoredRangeIsProper ==
    \A inst \in Instruments :
       Has(range_levels, inst) =>
          range_levels[inst].upper_bound > range_levels[inst].lower_bound

\* C27: process_candle returns a failure event only when the phase of the
\* instrument at the start of the call was BREAKOUT_UP or BREAKOUT_DOWN; the
\* candle of the call is then no breakout of the range, and the call leaves
\* the instrument in CONSOLIDATION without a range, so that a second event
\* needs another breakout.
C27_FailureOnlyAfterBreakout ==
    (IsProcess /\ last_call.alert # None) =>
       /\ last_call.phase_before \in {BREAKOUT_UP, BREAKOUT_DOWN}
       /\ last_call.range_before # None
       /\ detect_breakout(last_call.candle, last_call.range_before[1]) = "none"
       /\ current_phase[CallInst] = CONSOLIDATION
       /\ ~Has(range_levels, CallInst)
       /\ ~Has(breakout_prices, CallInst)

\* a failure event on a candle after the breakout candle
C27_Witness ==
    /\ IsProcess
    /\ last_call.alert # None
    /\ last_call.phase_before = BREAKOUT_UP
    /\ last_call.alert[1].direction = "up_failure"
    /\ Len(failure_history[CallInst]) = 1

\* a candle that breaks out of the range and closes back inside it: the
\* call records the breakout and returns no event
C27_BreakoutCandleWitness ==
    /\ IsProcess
    /\ last_call.alert = None
    /\ last_call.phase_before = CONSOLIDATION
    /\ Has(current_phase, CallInst)
    /\ current_phase[CallInst] = BREAKOUT_UP
    /\ Has(range_levels, CallInst)
    /\ is_failure("up", last_call.candle.close, range_levels[CallInst])

\* C28: the call of process_candle that brings the history of an instrument
\* to 30 candles recomputes its swing points, so that both are defined
\* after it.
C28_SwingPointsAtThirty ==
    (IsProcess /\ ~last_call.raised
               /\ Len(bf_price_history[CallInst]) = SWING_LOOKBACK) =>
       /\ swing_update_due(bf_price_history[CallInst])
       /\ Has(swing_lows, CallInst)
       /\ Has(swing_highs, CallInst)

\* C29: the swing points of an instrument are recomputed on a call of
\* process_candle exactly when the number of candles processed for it is a
\* multiple of 10 (from the first recomputation on), so that 10 candles lie
\* between two recomputations, also beyond the 200-candle history cap.
C29_SwingEveryTenCandles ==
    IsProcess =>
       LET processed == Len(bf_log[CallInst])
           recomputed == swing_update_due(bf_price_history[CallInst])
       IN /\ recomputed => processed % SWING_EVERY = 0
          /\ (processed > SWING_AFTER /\ processed % SWING_EVERY = 0)
                => recomputed

\* the support levels of the instrument of the call that are active and
\* whose breakdown conditions the candle of the call satisfies: the close
\* is below the threshold, the history holds consolidation_periods candles
\* and int(consolidation_periods * 0.6) of the last of them closed below
QualifyingLevels ==
    IF IsUpdate /\ Has(support_levels, CallInst)
    THEN {i \in 1..Len(support_levels[CallInst]) :
            LET s == support_levels[CallInst][i]
                history == bd_price_history[CallInst]
            IN /\ s.is_active
               /\ 1000 * last_call.candle.close < s.price * (1000 - s.tolerance)
               /\ Len(history) >= s.consolidation_periods
               /\ ClosesBelow(history, s.consolidation_periods, s)
                     >= (6 * s.consolidation_periods) \div 10}
    ELSE {}

\* C31: a BreakdownEvent does not deactivate its support level or start a
\* cooldown: the level is active after the call, update_price changes no
\* level, and when the next candle satisfies the breakdown conditions of
\* that level too, update_price returns an event again, for the same level
\* unless an earlier-registered one qualifies.
C31_LevelRetriggers ==
    [][(IsUpdate' /\ last_call'.alert # None) =>
         /\ QualifyingLevels' # {}
         /\ (IsUpdate /\ last_call.alert # None /\ CallInst' = CallInst
                 /\ bd_log' # bd_log) =>
               support_levels' = support_levels]_vars
    /\ [][(IsUpdate /\ last_call.alert # None /\ IsUpdate'
              /\ bd_log' # bd_log /\ CallInst' = CallInst
              /\ MinOf(QualifyingLevels) \in QualifyingLevels') =>
            /\ last_call'.alert # None
            /\ (MinOf(QualifyingLevels') = MinOf(QualifyingLevels) =>
                  last_call'.alert[1].support_level
                     = last_call.alert[1].support_level)]_vars

\* one level, polled by one worker: the second and the third candle both
\* gave an event for it
C31_Witness ==
    /\ IsUpdate
    /\ last_call.alert # None
    /\ Len(support_levels[CallInst]) = 1
    /\ support_levels[CallInst][1].is_active
    /\ support_levels[CallInst][1].consolidation_periods = 2
    /\ Len(bd_log[CallInst]) = 3
    /\ Has(breakdown_history, CallInst)
    /\ Len(breakdown_history[CallInst]) = 2
    /\ breakdown_history[CallInst][1].support_level
          = breakdown_history[CallInst][2].support_level

\* C32: a fault of process_candle leaves the worker of the instrument
\* running, and it comes from the candle of the call: a call on a complete
\* candle record does not fault because of a record left in the history.
C32_FaultDoesNotRecur ==
    IsProcess =>
       /\ Len(bf_workers[CallInst]) >= 1
       /\ last_call.raised => DOMAIN last_call.candle # AllFields

\* the name ends in a leg token preceded by a token of decimal digits
StrikeParses(name) ==
    LET t == Split(name)
    IN /\ Len(t) >= 2
       /\ t[Len(t)] \in {<<"C", "E">>, <<"P", "E">>}
       /\ IsInt(t[Len(t) - 1])

\* C33: for every instrument name the momentum calculation returns; when
\* the strike of the name cannot be parsed, the returned level or entry
\* carries strike 0.
C33_MalformedNameNeverRaises ==
    IsMoCall =>
       /\ mo_call.outcome # "raise"
       /\ (mo_call.outcome = "level" /\ ~StrikeParses(mo_call.instrument)) =>
             mo_call.level[1].strike = 0
       /\ (mo_call.outcome = "entry" /\ ~StrikeParses(mo_call.instrument)) =>
             mo_call.entry[1].strike = 0

\* C34: between calls the phase of an instrument is absent, CONSOLIDATION,
\* BREAKOUT_UP or BREAKOUT_DOWN; the failure and swing-broken phases are
\* never left behind by a call, so a status query never reports them.
C34_FailurePhasesAreTransient ==
    \A inst \in Instruments :
       /\ Has(current_phase, inst) =>
             current_phase[inst] \in {CONSOLIDATION, BREAKOUT_UP, BREAKOUT_DOWN}
       /\ PhaseOf(current_phase, inst)
             \in {CONSOLIDATION, BREAKOUT_UP, BREAKOUT_DOWN}

\* a failure that broke the swing low: the call went through
\* SWING_LOW_BROKEN and left CONSOLIDATION
C34_Witness ==
    /\ IsProcess
    /\ last_call.alert # None
    /\ last_call.alert[1].swing_low_broken
    /\ Has(current_phase, CallInst)
    /\ current_phase[CallInst] = CONSOLIDATION

\* C35: an instrument has a recorded breakout price exactly when its phase
\* is BREAKOUT_UP or BREAKOUT_DOWN; it then has a stored RangeLevel, and its
\* recorded direction is up for BREAKOUT_UP and down for BREAKOUT_DOWN.
C35_BreakoutPriceIffBreakoutPhase ==
    \A inst \in Instruments :
       LET phase == PhaseOf(current_phase, inst)
       IN /\ Has(breakout_prices, inst)
                <=> phase \in {BREAKOUT_UP, BREAKOUT_DOWN}
          /\ phase \in {BREAKOUT_UP, BREAKOUT_DOWN} =>
                /\ Has(range_levels, inst)
                /\ Has(breakout_direction, inst)
                /\ breakout_direction[inst] = "up" <=> phase = BREAKOUT_UP
                /\ breakout_direction[inst] = "down" <=> phase = BREAKOUT_DOWN

\* a downward breakout recorded over an upward one, and a successful stop
\* after a breakout had been recorded
C35_Witness ==
    /\ IsProcess
    /\ last_call.phase_before = BREAKOUT_UP
    /\ PhaseOf(current_phase, CallInst) = BREAKOUT_DOWN
    /\ Has(breakout_prices, CallInst)
    /\ breakout_direction[CallInst] = "down"
C35_StopWitness ==
    /\ last_call.op = "bf_stop"
    /\ last_call.status = 200
    /\ Has(breakout_direction, CallInst)
    /\ ~Has(breakout_prices, CallInst)

\* C36: a failure event is returned on a candle that lies inside the range
\* the event reports: its high is at most range_upper and its low is at
\* least range_lower.
C36_FailureCandleInsideRange ==
    (IsProcess /\ last_call.alert # None) =>
       /\ last_call.candle.high <= last_call.alert[1].range_upper
       /\ last_call.candle.low >= last_call.alert[1].range_lower
       /\ last_call.range_before # None
       /\ last_call.alert[1].range_upper = last_call.range_before[1].upper_bound
       /\ last_call.alert[1].range_lower = last_call.range_before[1].lower_bound

\* the failure of a downward breakout, on a candle that closes back above
\* the lower bound without leaving the range
C36_Witness ==
    /\ IsProcess
    /\ last_call.alert # None
    /\ last_call.alert[1].direction = "down_failure"
    /\ last_call.candle.close > last_call.alert[1].range_lower
    /\ last_call.candle.low >= last_call.alert[1].range_lower
    /\ last_call.candle.high <= last_call.alert[1].range_upper

\* the breakdown history of an instrument as get_breakdowns returns it
Breakdowns(history, inst) == IF Has(history, inst) THEN history[inst] ELSE <<>>

\* C37: every BreakdownEvent update_price returns to a worker of the
\* breakdown monitor is appended to the breakdown history of the
\* instrument, with and without notification, and nothing else is.
C37_EveryEventIsRecorded ==
    [][(IsUpdate' /\ bd_log' # bd_log) =>
          Breakdowns(breakdown_history', CallInst')
             = IF last_call'.alert # None
               THEN Append(Breakdowns(breakdown_history, CallInst'),
                           last_call'.alert[1])
               ELSE Breakdowns(breakdown_history, CallInst')]_vars

\* C38: a stop of the breakout-failure monitor is reported as not-found
\* only for an instrument that was never started, had no candle processed,
\* or was stopped already with no start since.
C38_StopOfMonitoredSucceeds ==
    (last_call.op = "bf_stop" /\ last_call.status = 404) =>
       \/ Len(bf_workers[CallInst]) = 0
       \/ Len(bf_log[CallInst]) = 0
       \/ bf_stopped[CallInst]

====
